---- MODULE Spec2Model ----
(***************************************************************************)
(* quickphf: PTHash perfect hash construction (quickphf_codegen::phf), the *)
(* code writer that permutes the payload into storage order                *)
(* (quickphf_codegen::lib) and the runtime lookups of RawPhfMap, PhfMap    *)
(* and PhfSet (quickphf::raw_map, map, set).                               *)
(*                                                                         *)
(* Indices are 0-based as in the source; At(s, i) reads the i-th element   *)
(* of a TLA+ sequence counted from 0.                                      *)
(*                                                                         *)
(* hash_key is wyhash, a dependency that is not part of the repository: it *)
(* is modelled as an unknown function of (key, seed), sampled when a key   *)
(* is first hashed under a seed and remembered in `hashes` from then on.   *)
(* Words are HashBits wide instead of 64 bits wide: XOR and the wrapping   *)
(* multiplication are computed on HashBits-bit words.                      *)
(*                                                                         *)
(* sort_unstable_by / sort_unstable_by_key run an insertion sort on slices *)
(* of at most 20 elements, which keeps equal elements in their original    *)
(* order; every slice of the model is shorter than that, so StableSort is  *)
(* what the two calls compute here.                                        *)
(***************************************************************************)
EXTENDS Integers, Sequences, FiniteSets, TLC

(* ------------------------------ bounds -------------------------------- *)

\* longest key slice handed to generate_phf
MaxN == 3
\* hash_key returns a value in 0..MaxHash
MaxHash == 6
\* width of a hash word (u64 in the source)
HashBits == 4
\* last pilot tried for a bucket (u16::MAX in the source)
MaxPilot == 3
\* last seed counter tried (the source's (1..) has no end)
MaxSeeds == 2
\* longest key slice whose parameters generate_phf computes in ParamSpec
MaxKeys == 100
\* threads that share the static in ThreadsSpec
MaxThreads == 2
\* one more value hash_key returns in SearchSpec, above MaxHash
WideHash == 12

\* the keys a caller may pass or query
KeyUniverse == {1, 2, 3}
\* the input of the duplicate-detection scenario, build_set([1,2,3,2])
DuplicateExample == <<1, 2, 3, 2>>

(* ------------------------- program constants -------------------------- *)

\* MAX_ALPHA = 0.99, in thousandths
MAX_ALPHA == 990
\* MIN_C = 1.5, in tenths
MIN_C == 15
\* low byte of K = 0x517cc1b727220a95: the low HashBits bits of a wrapping
\* product depend only on the low HashBits bits of its factors
K == 149
\* const EMPTY: u32 = u32::MAX, the sentinel of an unoccupied slot; any value
\* that is no key index (asserted by entries.len() < u32::MAX) serves
EMPTY == -1

NONE == "None"

(* ------------------------------ helpers ------------------------------- *)

At(s, i) == s[i + 1]

InBounds(s, i) == i >= 0 /\ i < Len(s)

SetAt(s, i, v) == [s EXCEPT ![i + 1] = v]

Repeat(v, len) == [i \in 1..len |-> v]

RECURSIVE Pow2(_)
Pow2(w) == IF w = 0 THEN 1 ELSE 2 * Pow2(w - 1)

WordMod == Pow2(HashBits)

RECURSIVE XorBits(_, _, _)
XorBits(a, b, w) ==
    IF w = 0 THEN 0
    ELSE (((a % 2) + (b % 2)) % 2) + 2 * XorBits(a \div 2, b \div 2, w - 1)

\* a ^ b on hash words
Xor(a, b) == XorBits(a, b, HashBits)

CeilDiv(a, b) == (a + b - 1) \div b

\* the order an insertion sort leaves: ascending by key[i], equal keys in
\* their original order
StableSort(s, key) ==
    LET len == Len(s)
        rank(j) == Cardinality({k \in 1..len :
                        key[k] < key[j] \/ (key[k] = key[j] /\ k < j)})
    IN  [i \in 1..len |-> s[CHOOSE j \in 1..len : rank(j) = i - 1]]

(* --------------------------- hashing kernel --------------------------- *)

hash_pilot_value(pilot_value) == (pilot_value * K) % WordMod

get_bucket(key_hash, buckets) == key_hash % buckets

get_index(key_hash, pilot_hash, codomain_len) ==
    Xor(key_hash, pilot_hash) % codomain_len

(* ----------------------- generate_phf parameters ---------------------- *)

RECURSIVE ilog2(_)
ilog2(n) == IF n <= 1 THEN 0 ELSE 1 + ilog2(n \div 2)

\* ((c * n) / lg).ceil() with c = MIN_C + 0.2 * lg, or 1 when n = 1; the
\* integer quotient equals the f64 computation for every n < 140
BucketsLen(n) ==
    LET lg == ilog2(n)
    IN  IF n > 1 THEN CeilDiv((MIN_C + 2 * lg) * n, 10 * lg) ELSE 1

\* alpha losing 0.01 per unit of lg
Candidate_SteepAlpha(n) == CeilDiv(1000 * n, MAX_ALPHA - 10 * ilog2(n))

\* (n / alpha).ceil() with alpha = MAX_ALPHA - 0.001 * lg; the integer
\* quotient equals the f64 computation for every n < 400
Candidate(n) == CeilDiv(1000 * n, MAX_ALPHA - ilog2(n))

\* the candidate taken as it is
CodomainLen_NoRounding(n) == Candidate(n)

\* candidate + (1 - candidate % 2)
CodomainLen(n) == Candidate(n) + (1 - (Candidate(n) % 2))

\* n itself as the seed
SeedOf_NoShift(n) == [hi |-> 0, lo |-> n]

\* n << 32 as a u64, kept as its two 32-bit halves
SeedOf(n) == [hi |-> n, lo |-> 0]

\* the empty input answered with empty vectors
EmptyPhf_NoSentinel ==
    [seed |-> SeedOf(0), pilots_table |-> <<>>, map |-> <<>>, free |-> <<>>]

\* generate_phf on an empty slice
EmptyPhf == [seed |-> SeedOf(0), pilots_table |-> <<0>>, map |-> <<>>, free |-> <<0>>]

(* -------------------------------- state ------------------------------- *)

VARIABLES
    entries,         \* generate_phf: the key slice
    pc,              \* position in build_* / generate_phf / try_generate_phf / lookups
    seed_n,          \* generate_phf: the counter n of (1..), seed = n << 32
    hashes,          \* hash_key(k, seed) for the keys hashed under the current seed
    hashed_entries,  \* try_generate_phf: Vec<HashedEntry>, sorted
    buckets,         \* try_generate_phf: Vec<BucketData>, sorted
    pilots_table,    \* try_generate_phf: Vec<u16>
    map,             \* try_generate_phf: Vec<u32>
    bucket_i,        \* try_generate_phf: position of `for bucket in buckets`
    pilot,           \* try_generate_phf: position of `for pilot in 0..=u16::MAX`
    free,            \* try_generate_phf: Vec<u32>
    front_idx,       \* try_generate_phf: compaction, front cursor
    back_idx,        \* try_generate_phf: compaction, back cursor
    phf,             \* the Phf generate_phf returned
    writer,          \* the CodeWriter build_* returned
    table,           \* the static RawPhfMap / PhfMap / PhfSet of the consumer
    res,             \* the outcome of the last lookup
    err,             \* the panic that ended the run
    run,             \* 0: generate_phf is called once; 1, 2: it is called twice
                     \* on one slice and this is the first, the second call
    first,           \* what the first call's attempt under seed_n hashed and gave
    threads,         \* the locals of each thread that reads the static
    other,           \* the PhfSet built before this one, with its hash_key values
    combined,        \* what a combinator of the two sets yielded
    compared         \* what == answered for the two tables

scratch == <<hashed_entries, buckets, pilots_table, map, bucket_i, pilot,
             free, front_idx, back_idx>>

\* the second set of a combinator
pair == <<other, combined, compared>>

\* the state of the caller that repeats a call, shares the static or
\* combines two sets
harness == <<run, first, threads, other, combined, compared>>

vars == <<entries, pc, seed_n, hashes, hashed_entries, buckets, pilots_table,
          map, bucket_i, pilot, free, front_idx, back_idx, phf, writer, table,
          res, err, run, first, threads, other, combined,
          compared>>

N == Len(entries)

\* generate_phf: buckets_len and codomain_len of the running construction
buckets_len == BucketsLen(N)

codomain_len == CodomainLen(N)

NoHashes == [k \in {} |-> 0]

NoPhf == [seed |-> SeedOf(0), pilots_table |-> <<>>, map |-> <<>>, free |-> <<>>]

NoWriter == [kind |-> NONE, keys |-> <<>>, values |-> <<>>]

NoTable == [kind |-> NONE, codomain_len |-> 0, buckets |-> 0, seed |-> SeedOf(0),
            pilots_table |-> <<>>, values |-> <<>>, free |-> <<>>]

NoRes == [op |-> NONE, key |-> 0, panic |-> FALSE, out |-> <<>>,
          reads |-> 0, cmps |-> 0, hashed |-> FALSE]

NoErr == [kind |-> NONE, a |-> 0, b |-> 0]

NoFirst == [seed_n |-> 0, hashes |-> NoHashes, ended |-> NONE,
            phf |-> NoPhf, err |-> NoErr]

NoThreads == <<>>

NoOther == [table |-> NoTable, hashes |-> NoHashes]

NoCompared == [done |-> FALSE, a_b |-> FALSE, b_a |-> FALSE, a_a |-> FALSE,
               b_b |-> FALSE, panic |-> FALSE]

NoCombined == [op |-> NONE, yielded |-> <<>>, a_minus_b |-> <<>>,
               b_minus_a |-> <<>>, in_a |-> {}, in_b |-> {}, panic |-> FALSE]

Inputs ==
    UNION {[1..m -> KeyUniverse] : m \in 0..MaxN} \cup {DuplicateExample}

KeysOf(s) == {s[i] : i \in 1..Len(s)}

ScratchCleared ==
    /\ hashed_entries' = <<>>
    /\ buckets' = <<>>
    /\ pilots_table' = <<>>
    /\ map' = <<>>
    /\ bucket_i' = 0
    /\ pilot' = 0
    /\ free' = <<>>
    /\ front_idx' = 0
    /\ back_idx' = 0

\* nothing has run yet
Fresh ==
    /\ pc = "start"
    /\ seed_n = 0
    /\ hashes = NoHashes
    /\ hashed_entries = <<>>
    /\ buckets = <<>>
    /\ pilots_table = <<>>
    /\ map = <<>>
    /\ bucket_i = 0
    /\ pilot = 0
    /\ free = <<>>
    /\ front_idx = 0
    /\ back_idx = 0
    /\ phf = NoPhf
    /\ writer = NoWriter
    /\ table = NoTable
    /\ res = NoRes
    /\ err = NoErr

\* one call of build_*, nothing is repeated
SingleRun ==
    /\ run = 0
    /\ first = NoFirst
    /\ threads = NoThreads
    /\ other = NoOther
    /\ combined = NoCombined
    /\ compared = NoCompared

Init ==
    /\ entries \in Inputs
    /\ Fresh
    /\ SingleRun

(* ----------------------------- generate_phf --------------------------- *)

\* entries.is_empty(): the sentinel Phf is returned, no seed is tried
GeneratePhfEmpty ==
    /\ pc = "start"
    /\ N = 0
    /\ phf' = EmptyPhf
    /\ pc' = "generated"
    /\ UNCHANGED <<harness, entries, seed_n, hashes, scratch, writer, table, res, err>>

\* the first element of (1..) is handed to try_generate_phf
GeneratePhfFirstSeed ==
    /\ pc = "start"
    /\ N > 0
    /\ seed_n' = 1
    /\ pc' = "attempt"
    /\ UNCHANGED <<harness, entries, hashes, scratch, phf, writer, table, res, err>>

\* the next n is taken with the vectors of the failed attempt left in place
SeedFailed_KeepsState ==
    /\ hashes' = NoHashes
    /\ IF seed_n < MaxSeeds
         THEN seed_n' = seed_n + 1 /\ pc' = "attempt"
         ELSE seed_n' = seed_n /\ pc' = "capped"
    /\ UNCHANGED <<harness, entries, scratch, phf, writer, table, res, err>>

\* try_generate_phf returned None: find_map moves to the next n
SeedFailed ==
    /\ ScratchCleared
    /\ hashes' = NoHashes
    /\ IF seed_n < MaxSeeds
         THEN seed_n' = seed_n + 1 /\ pc' = "attempt"
         ELSE seed_n' = seed_n /\ pc' = "capped"
    /\ UNCHANGED <<harness, entries, phf, writer, table, res, err>>

(* --------------------------- try_generate_phf ------------------------- *)

HashedEntry(i, h) ==
    [idx |-> i, hash |-> h, bucket |-> get_bucket(h, buckets_len)]

\* the entries left in the order of the input
SortHashedEntries_ByIndex(hes) ==
    StableSort(hes, [i \in 1..Len(hes) |-> hes[i].idx])

\* sort_unstable_by_key(|e| (e.bucket, e.hash))
SortHashedEntries(hes) ==
    StableSort(hes, [i \in 1..Len(hes) |-> hes[i].bucket * WordMod + hes[i].hash])

\* the keys are hashed under the seed and the entries sorted by (bucket, hash)
HashEntries ==
    /\ pc = "attempt"
    /\ \E h \in [KeysOf(entries) -> 0..MaxHash] :
         /\ hashes' = h
         /\ hashed_entries' = SortHashedEntries(
                [i \in 1..N |-> HashedEntry(i - 1, h[entries[i]])])
    /\ pc' = "scan"
    /\ UNCHANGED <<harness, entries, seed_n, buckets, pilots_table, map, bucket_i, pilot,
                   free, front_idx, back_idx, phf, writer, table, res, err>>

\* windows(2): window w holds the entries at positions w and w + 1
WindowHit(hes, w) ==
    /\ At(hes, w).hash = At(hes, w + 1).hash
    /\ At(hes, w).bucket = At(hes, w + 1).bucket

\* the first window the scan stops at, or -1 when it runs to the end
FirstHit(hes) ==
    IF \E w \in 0..(Len(hes) - 2) : WindowHit(hes, w)
      THEN CHOOSE w \in 0..(Len(hes) - 2) :
               /\ WindowHit(hes, w)
               /\ \A v \in 0..(w - 1) : ~WindowHit(hes, v)
      ELSE -1

\* the indices compared instead of the keys
SameKey_Indices(e0, e1) == e0.idx = e1.idx

\* entries[e0.idx] == entries[e1.idx]
SameKey(e0, e1) == At(entries, e0.idx) = At(entries, e1.idx)

\* the panic naming the positions in the sorted vector
DuplicatePanic_Positions(hes, w) ==
    [kind |-> "duplicate keys", a |-> w, b |-> w + 1]

\* panic!("duplicate keys at indices {} and {}", e0.idx, e1.idx)
DuplicatePanic(hes, w) ==
    [kind |-> "duplicate keys", a |-> At(hes, w).idx, b |-> At(hes, w + 1).idx]

\* the scan stops at a pair of equal keys: panic!("duplicate keys at indices ..")
ScanDuplicate ==
    /\ pc = "scan"
    /\ FirstHit(hashed_entries) >= 0
    /\ LET e0 == At(hashed_entries, FirstHit(hashed_entries))
           e1 == At(hashed_entries, FirstHit(hashed_entries) + 1)
       IN  /\ SameKey(e0, e1)
           /\ err' = DuplicatePanic(hashed_entries, FirstHit(hashed_entries))
    /\ pc' = "panicked"
    /\ UNCHANGED <<harness, entries, seed_n, hashes, scratch, phf, writer, table, res>>

\* the scan stops at two different keys with one hash: return None
ScanCollision ==
    /\ pc = "scan"
    /\ FirstHit(hashed_entries) >= 0
    /\ LET e0 == At(hashed_entries, FirstHit(hashed_entries))
           e1 == At(hashed_entries, FirstHit(hashed_entries) + 1)
       IN  ~SameKey(e0, e1)
    /\ SeedFailed

\* take_while(|entry| entry.bucket == idx).count() from start_idx on
TakeWhileCount(hes, start_idx, idx) ==
    Cardinality({c \in 1..(Len(hes) - start_idx) :
                    \A j \in 0..(c - 1) : At(hes, start_idx + j).bucket = idx})

RECURSIVE FormBuckets(_, _, _, _)
FormBuckets(hes, idx, start_idx, acc) ==
    IF idx >= buckets_len THEN acc
    ELSE LET size == TakeWhileCount(hes, start_idx, idx)
         IN  FormBuckets(hes, idx + 1, start_idx + size,
                 Append(acc, [idx |-> idx, start_idx |-> start_idx, size |-> size]))

\* the buckets ordered by increasing size
SortBuckets_Ascending(bs) == StableSort(bs, [i \in 1..Len(bs) |-> bs[i].size])

\* sort_unstable_by(|b1, b2| b1.size.cmp(&b2.size).reverse())
SortBuckets(bs) == StableSort(bs, [i \in 1..Len(bs) |-> 0 - bs[i].size])

\* the scan found nothing: buckets are formed and ordered, pilots_table and
\* map are allocated, the bucket loop starts
ScanClean ==
    /\ pc = "scan"
    /\ FirstHit(hashed_entries) < 0
    /\ buckets' = SortBuckets(FormBuckets(hashed_entries, 0, 0, <<>>))
    /\ pilots_table' = Repeat(0, buckets_len)
    /\ map' = Repeat(EMPTY, codomain_len)
    /\ bucket_i' = 0
    /\ pilot' = 0
    /\ pc' = "pilots"
    /\ UNCHANGED <<harness, entries, seed_n, hashes, hashed_entries, free, front_idx,
                   back_idx, phf, writer, table, res, err>>

(* ------------------- try_generate_phf: pilot search ------------------- *)

\* &hashed_entries[bucket_start..bucket_end]
BucketEntries(bucket) ==
    SubSeq(hashed_entries, bucket.start_idx + 1, bucket.start_idx + bucket.size)

\* the pilot mixed in without hash_pilot_value
Destination_RawPilot(entry, p) == get_index(entry.hash, p, codomain_len)

\* get_index(entry.hash, pilot_hash, codomain_len) for pilot p
Destination(entry, p) == get_index(entry.hash, hash_pilot_value(p), codomain_len)

\* some entry of the bucket lands on a slot a previous bucket occupies
HitsOccupied(m, bes, p) ==
    \E i \in 1..Len(bes) : At(m, Destination(bes[i], p)) # EMPTY

\* values_to_add once every entry of the bucket was pushed
ValuesToAdd(bes, p) ==
    [i \in 1..Len(bes) |-> [idx |-> bes[i].idx, destination |-> Destination(bes[i], p)]]

\* values_to_add.sort_unstable_by_key(|k| k.1)
SortValuesToAdd(vta) ==
    StableSort(vta, [i \in 1..Len(vta) |-> vta[i].destination])

\* two entries of the bucket land on one slot
SharesDestination(vta) ==
    \E w \in 1..(Len(vta) - 1) : vta[w].destination = vta[w + 1].destination

\* the candidate checked against the previous buckets only
PilotFits_OccupiedOnly(m, bes, p) == ~HitsOccupied(m, bes, p)

\* the candidate pilot passes both checks
PilotFits(m, bes, p) ==
    /\ ~HitsOccupied(m, bes, p)
    /\ ~SharesDestination(SortValuesToAdd(ValuesToAdd(bes, p)))

\* for &(idx, destination) in &values_to_add { map[destination] = idx }
RECURSIVE Place(_, _)
Place(m, vta) ==
    IF vta = <<>> THEN m
    ELSE Place(SetAt(m, Head(vta).destination, Head(vta).idx), Tail(vta))

CurrentBucket == At(buckets, bucket_i)

\* the candidate is dropped after its keys were written to the slots that
\* were empty
PilotReject_EagerWrites ==
    /\ pc = "pilots"
    /\ ~PilotFits(map, BucketEntries(CurrentBucket), pilot)
    /\ pilot < MaxPilot
    /\ pilot' = pilot + 1
    /\ map' = Place(map, SelectSeq(ValuesToAdd(BucketEntries(CurrentBucket), pilot),
                         LAMBDA v : At(map, v.destination) = EMPTY))
    /\ UNCHANGED <<harness, entries, pc, seed_n, hashes, hashed_entries, buckets,
                   pilots_table, bucket_i, free, front_idx, back_idx, phf,
                   writer, table, res, err>>

\* the candidate is dropped and the counter wraps around after the last pilot
PilotReject_Wraps ==
    /\ pc = "pilots"
    /\ ~PilotFits(map, BucketEntries(CurrentBucket), pilot)
    /\ pilot' = (pilot + 1) % (MaxPilot + 1)
    /\ UNCHANGED <<harness, entries, pc, seed_n, hashes, hashed_entries, buckets,
                   pilots_table, map, bucket_i, free, front_idx, back_idx, phf,
                   writer, table, res, err>>

\* continue 'pilots: the candidate is dropped, nothing is written
PilotReject ==
    /\ pc = "pilots"
    /\ ~PilotFits(map, BucketEntries(CurrentBucket), pilot)
    /\ pilot < MaxPilot
    /\ pilot' = pilot + 1
    /\ UNCHANGED <<harness, entries, pc, seed_n, hashes, hashed_entries, buckets,
                   pilots_table, map, bucket_i, free, front_idx, back_idx, phf,
                   writer, table, res, err>>

\* the last pilot is dropped as well: !pilot_found, return None
PilotExhausted ==
    /\ pc = "pilots"
    /\ ~PilotFits(map, BucketEntries(CurrentBucket), pilot)
    /\ pilot = MaxPilot
    /\ SeedFailed

\* the candidate fits: the bucket is placed and its pilot stored; after the
\* last bucket `free` is allocated and compaction starts
PilotAccept ==
    /\ pc = "pilots"
    /\ PilotFits(map, BucketEntries(CurrentBucket), pilot)
    /\ map' = Place(map, SortValuesToAdd(
                  ValuesToAdd(BucketEntries(CurrentBucket), pilot)))
    /\ pilots_table' = SetAt(pilots_table, CurrentBucket.idx, pilot)
    /\ pilot' = 0
    /\ bucket_i' = bucket_i + 1
    /\ IF bucket_i + 1 < Len(buckets)
         THEN UNCHANGED <<pc, free, front_idx, back_idx>>
         ELSE /\ pc' = "compact"
              /\ free' = Repeat(0, codomain_len - N)
              /\ back_idx' = N
              /\ front_idx' = 0
    /\ UNCHANGED <<harness, entries, seed_n, hashes, hashed_entries, buckets, phf,
                   writer, table, res, err>>

(* --------------------- try_generate_phf: compaction ------------------- *)

\* while map[back_idx] == EMPTY { back_idx += 1 }: where the loop stops;
\* Len(m) when it runs off the end of map
RECURSIVE SkipEmpty(_, _)
SkipEmpty(m, b) ==
    IF b >= Len(m) THEN Len(m)
    ELSE IF At(m, b) # EMPTY THEN b
    ELSE SkipEmpty(m, b + 1)

\* map[front_idx] != EMPTY: continue
CompactKeep ==
    /\ pc = "compact"
    /\ front_idx < N
    /\ At(map, front_idx) # EMPTY
    /\ front_idx' = front_idx + 1
    /\ UNCHANGED <<harness, entries, pc, seed_n, hashes, hashed_entries, buckets,
                   pilots_table, map, bucket_i, pilot, free, back_idx, phf,
                   writer, table, res, err>>

\* the move with free recording the input index moved, not the slot it
\* moved to
CompactMove_FreeHoldsEntry ==
    /\ pc = "compact"
    /\ front_idx < N
    /\ At(map, front_idx) = EMPTY
    /\ LET b == SkipEmpty(map, back_idx)
       IN  IF b >= Len(map)
             THEN /\ pc' = "panicked"
                  /\ err' = [kind |-> "index out of bounds", a |-> b, b |-> Len(map)]
                  /\ UNCHANGED <<map, free, back_idx, front_idx>>
             ELSE /\ map' = SetAt(map, front_idx, At(map, b))
                  /\ free' = SetAt(free, b - N, At(map, b))
                  /\ back_idx' = b + 1
                  /\ front_idx' = front_idx + 1
                  /\ UNCHANGED <<pc, err>>
    /\ UNCHANGED <<harness, entries, seed_n, hashes, hashed_entries, buckets,
                   pilots_table, bucket_i, pilot, phf, writer, table, res>>

\* the move with the back cursor left on the slot it read
CompactMove_NoAdvance ==
    /\ pc = "compact"
    /\ front_idx < N
    /\ At(map, front_idx) = EMPTY
    /\ LET b == SkipEmpty(map, back_idx)
       IN  IF b >= Len(map)
             THEN /\ pc' = "panicked"
                  /\ err' = [kind |-> "index out of bounds", a |-> b, b |-> Len(map)]
                  /\ UNCHANGED <<map, free, back_idx, front_idx>>
             ELSE /\ map' = SetAt(map, front_idx, At(map, b))
                  /\ free' = SetAt(free, b - N, front_idx)
                  /\ back_idx' = b
                  /\ front_idx' = front_idx + 1
                  /\ UNCHANGED <<pc, err>>
    /\ UNCHANGED <<harness, entries, seed_n, hashes, hashed_entries, buckets,
                   pilots_table, bucket_i, pilot, phf, writer, table, res>>

\* map[front_idx] is a hole: the next occupied back slot is moved into it
\* and free records where it went; reading map past its end panics
CompactMove ==
    /\ pc = "compact"
    /\ front_idx < N
    /\ At(map, front_idx) = EMPTY
    /\ LET b == SkipEmpty(map, back_idx)
       IN  IF b >= Len(map)
             THEN /\ pc' = "panicked"
                  /\ err' = [kind |-> "index out of bounds", a |-> b, b |-> Len(map)]
                  /\ UNCHANGED <<map, free, back_idx, front_idx>>
             ELSE /\ map' = SetAt(map, front_idx, At(map, b))
                  /\ free' = SetAt(free, b - N, front_idx)
                  /\ back_idx' = b + 1
                  /\ front_idx' = front_idx + 1
                  /\ UNCHANGED <<pc, err>>
    /\ UNCHANGED <<harness, entries, seed_n, hashes, hashed_entries, buckets,
                   pilots_table, bucket_i, pilot, phf, writer, table, res>>

\* the Phf returned without map.truncate(entries.len())
CompactFinish_NoTruncate ==
    /\ pc = "compact"
    /\ front_idx = N
    /\ phf' = [seed |-> SeedOf(seed_n), pilots_table |-> pilots_table,
               map |-> map, free |-> free]
    /\ pc' = "generated"
    /\ ScratchCleared
    /\ UNCHANGED <<harness, entries, seed_n, hashes, writer, table, res, err>>

\* map.truncate(entries.len()); Some(Phf { .. }) ends find_map
CompactFinish ==
    /\ pc = "compact"
    /\ front_idx = N
    /\ phf' = [seed |-> SeedOf(seed_n), pilots_table |-> pilots_table,
               map |-> SubSeq(map, 1, N), free |-> free]
    /\ pc' = "generated"
    /\ ScratchCleared
    /\ UNCHANGED <<harness, entries, seed_n, hashes, writer, table, res, err>>

(* ------------------- build_raw_map / build_map / build_set ------------ *)

\* the value slices a caller may pass: values differ by position
ValuesOfLen(m) == [i \in 1..m |-> 100 + i]

ValueLens == 0..(N + 1)

\* build_*: generate_phf(keys) has returned and never read kind or values,
\* which are bound here, where the CodeWriter is formed
BuildRawMap ==
    /\ pc = "generated"
    /\ \E m \in ValueLens :
         writer' = [kind |-> "RawMap", keys |-> <<>>, values |-> ValuesOfLen(m)]
    /\ pc' = "writer"
    /\ UNCHANGED <<harness, entries, seed_n, hashes, scratch, phf, table, res, err>>

BuildMap ==
    /\ pc = "generated"
    /\ \E m \in ValueLens :
         writer' = [kind |-> "Map", keys |-> entries, values |-> ValuesOfLen(m)]
    /\ pc' = "writer"
    /\ UNCHANGED <<harness, entries, seed_n, hashes, scratch, phf, table, res, err>>

BuildSet ==
    /\ pc = "generated"
    /\ writer' = [kind |-> "Set", keys |-> entries, values |-> <<>>]
    /\ pc' = "writer"
    /\ UNCHANGED <<harness, entries, seed_n, hashes, scratch, phf, table, res, err>>

(* ----------------------------- CodeWriter::write ---------------------- *)

\* the slices the match arm of self.kind indexes with idx
Renders(w, idx) ==
    CASE w.kind = "Map" -> InBounds(w.keys, idx) /\ InBounds(w.values, idx)
      [] w.kind = "RawMap" -> InBounds(w.values, idx)
      [] w.kind = "Set" -> InBounds(w.keys, idx)

\* what is written for idx: the payload of input idx
StorageEntry(w, idx) ==
    CASE w.kind = "Map" -> <<At(w.keys, idx), At(w.values, idx)>>
      [] w.kind = "RawMap" -> At(w.values, idx)
      [] w.kind = "Set" -> At(w.keys, idx)

\* the payload written in input order, the permutation phf.map ignored
Storage_InputOrder(w, p) == [i \in 1..Len(p.map) |-> StorageEntry(w, i - 1)]

\* for &idx in &self.phf.map { .. }
Storage(w, p) == [i \in 1..Len(p.map) |-> StorageEntry(w, p.map[i])]

\* the two divisors taken from each other's slices
RawPhfMap_new_SwappedDivisors(kind, seed, pilots, values, free_) ==
    [kind |-> kind,
     codomain_len |-> Len(pilots),
     buckets |-> Len(values) + Len(free_),
     seed |-> seed,
     pilots_table |-> pilots,
     values |-> values,
     free |-> free_]

\* RawPhfMap::new (PhfMap::new and PhfSet::new wrap it); kind is the type of
\* the static
RawPhfMap_new(kind, seed, pilots, values, free_) ==
    [kind |-> kind,
     codomain_len |-> Len(values) + Len(free_),
     buckets |-> Len(pilots),
     seed |-> seed,
     pilots_table |-> pilots,
     values |-> values,
     free |-> free_]

\* the writer is displayed and the text compiled into the consumer's static:
\* ::quickphf::<kind>::new(seed, &pilots_table, &storage, &free). Indexing
\* keys or values past their end panics; DivisorU64::new(0) panics
Write ==
    /\ pc = "writer"
    /\ IF \E i \in 1..Len(phf.map) : ~Renders(writer, phf.map[i])
         THEN /\ pc' = "panicked"
              /\ err' = [kind |-> "index out of bounds",
                         a |-> phf.map[CHOOSE i \in 1..Len(phf.map) :
                                   /\ ~Renders(writer, phf.map[i])
                                   /\ \A j \in 1..(i - 1) : Renders(writer, phf.map[j])],
                         b |-> Len(writer.values)]
              /\ UNCHANGED table
         ELSE IF Len(phf.map) + Len(phf.free) = 0 \/ Len(phf.pilots_table) = 0
         THEN /\ pc' = "panicked"
              /\ err' = [kind |-> "divisor can't be zero", a |-> 0, b |-> 0]
              /\ UNCHANGED table
         ELSE /\ pc' = "artifact"
              /\ table' = RawPhfMap_new(writer.kind, phf.seed, phf.pilots_table,
                                        Storage(writer, phf), phf.free)
              /\ UNCHANGED err
    /\ UNCHANGED <<harness, entries, seed_n, hashes, scratch, phf, writer, res>>

(* ------------------------------- lookups ------------------------------ *)

None == <<>>

Some(x) == <<x>>

\* RawPhfMap::len
RawLen(t) == Len(t.values)

\* RawPhfMap::get with an offset-free redirect, self.free[idx]
RawGet_NoOffset(t, h) ==
    LET bucket == get_bucket(h, t.buckets)
        Panic(r) == [panic |-> TRUE, out |-> None, slot |-> -1, index |-> -1, reads |-> r]
    IN  IF ~InBounds(t.pilots_table, bucket) THEN Panic(0)
        ELSE
        LET pilot_hash == hash_pilot_value(At(t.pilots_table, bucket))
            idx == get_index(h, pilot_hash, t.codomain_len)
        IN  IF idx < RawLen(t)
              THEN IF ~InBounds(t.values, idx) THEN Panic(1)
                   ELSE [panic |-> FALSE, out |-> Some(At(t.values, idx)),
                         slot |-> idx, index |-> idx, reads |-> 2]
              ELSE IF ~InBounds(t.free, idx) THEN Panic(1)
                   ELSE LET f == At(t.free, idx)
                        IN  IF ~InBounds(t.values, f) THEN Panic(2)
                            ELSE [panic |-> FALSE, out |-> Some(At(t.values, f)),
                                  slot |-> idx, index |-> f, reads |-> 3]

\* RawPhfMap::get on key hash h: the value reached, or a panic when an
\* index is out of bounds; `slot` is idx, `index` the position read in
\* values, `reads` counts the slice elements read
RawGet(t, h) ==
    LET bucket == get_bucket(h, t.buckets)
        Panic(r) == [panic |-> TRUE, out |-> None, slot |-> -1, index |-> -1, reads |-> r]
    IN  IF ~InBounds(t.pilots_table, bucket) THEN Panic(0)
        ELSE
        LET pilot_hash == hash_pilot_value(At(t.pilots_table, bucket))
            idx == get_index(h, pilot_hash, t.codomain_len)
        IN  IF idx < RawLen(t)
              THEN IF ~InBounds(t.values, idx) THEN Panic(1)
                   ELSE [panic |-> FALSE, out |-> Some(At(t.values, idx)),
                         slot |-> idx, index |-> idx, reads |-> 2]
              ELSE IF ~InBounds(t.free, idx - RawLen(t)) THEN Panic(1)
                   ELSE LET f == At(t.free, idx - RawLen(t))
                        IN  IF ~InBounds(t.values, f) THEN Panic(2)
                            ELSE [panic |-> FALSE, out |-> Some(At(t.values, f)),
                                  slot |-> idx, index |-> f, reads |-> 3]

\* the outcome of a lookup: op and key name the call, out is its Option (for
\* RawPhfMap::get the value, wrapped), reads the slice elements read, cmps the
\* key comparisons made, hashed whether hash_key was called
Outcome(op, q, panic, out, reads, cmps, hashed) ==
    [op |-> op, key |-> q, panic |-> panic, out |-> out, reads |-> reads,
     cmps |-> cmps, hashed |-> hashed]

\* RawPhfMap::get guarded by is_empty the way PhfMap::get_key_value is
RawMapGet_EarlyOut(t, q, h) ==
    IF RawLen(t) = 0 THEN Outcome("RawPhfMap::get", q, FALSE, None, 0, 0, FALSE)
    ELSE LET r == RawGet(t, h)
         IN  Outcome("RawPhfMap::get", q, r.panic, r.out, r.reads, 0, TRUE)

\* RawPhfMap::get(q), h being hash_key(q, seed)
RawMapGet(t, q, h) ==
    LET r == RawGet(t, h)
    IN  Outcome("RawPhfMap::get", q, r.panic, r.out, r.reads, 0, TRUE)

\* PhfMap::get_key_value without the comparison of the stored key
MapGetKeyValue_NoCompare(t, q, h) ==
    IF RawLen(t) = 0 THEN Outcome("PhfMap::get_key_value", q, FALSE, None, 0, 0, FALSE)
    ELSE LET r == RawGet(t, h)
         IN  Outcome("PhfMap::get_key_value", q, r.panic, r.out, r.reads, 0, TRUE)

\* PhfMap::get_key_value without the is_empty early return
MapGetKeyValue_NoEarlyOut(t, q, h) ==
    LET r == RawGet(t, h)
    IN  IF r.panic
          THEN Outcome("PhfMap::get_key_value", q, TRUE, None, r.reads, 0, TRUE)
        ELSE IF r.out[1][1] = q
          THEN Outcome("PhfMap::get_key_value", q, FALSE, r.out, r.reads, 1, TRUE)
        ELSE Outcome("PhfMap::get_key_value", q, FALSE, None, r.reads, 1, TRUE)

\* PhfMap::get_key_value(q), h being hash_key(q, seed)
MapGetKeyValue(t, q, h) ==
    IF RawLen(t) = 0 THEN Outcome("PhfMap::get_key_value", q, FALSE, None, 0, 0, FALSE)
    ELSE LET r == RawGet(t, h)
         IN  IF r.panic
               THEN Outcome("PhfMap::get_key_value", q, TRUE, None, r.reads, 0, TRUE)
             ELSE IF r.out[1][1] = q
               THEN Outcome("PhfMap::get_key_value", q, FALSE, r.out, r.reads, 1, TRUE)
             ELSE Outcome("PhfMap::get_key_value", q, FALSE, None, r.reads, 1, TRUE)

\* PhfMap::get: self.get_key_value(key).map(|e| e.1), on the outcome r of
\* get_key_value
MapGet(r) ==
    [r EXCEPT !.op = "PhfMap::get",
              !.out = IF r.out = None THEN None ELSE Some(r.out[1][2])]

\* PhfMap::get_key: self.get_key_value(key).map(|e| e.0)
MapGetKey(r) ==
    [r EXCEPT !.op = "PhfMap::get_key",
              !.out = IF r.out = None THEN None ELSE Some(r.out[1][1])]

\* PhfMap::contains_key: self.get_key_value(key).is_some()
MapContainsKey(r) ==
    [r EXCEPT !.op = "PhfMap::contains_key", !.out = Some(r.out # None)]

\* PhfSet::get comparing the next slot as well when the first differs
SetGet_Probing(t, q, h) ==
    IF RawLen(t) = 0 THEN Outcome("PhfSet::get", q, FALSE, None, 0, 0, FALSE)
    ELSE LET r == RawGet(t, h)
             next == (r.index + 1) % RawLen(t)
         IN  IF r.panic THEN Outcome("PhfSet::get", q, TRUE, None, r.reads, 0, TRUE)
             ELSE IF r.out[1] = q
               THEN Outcome("PhfSet::get", q, FALSE, r.out, r.reads, 1, TRUE)
             ELSE IF At(t.values, next) = q
               THEN Outcome("PhfSet::get", q, FALSE, Some(q), r.reads + 1, 2, TRUE)
             ELSE Outcome("PhfSet::get", q, FALSE, None, r.reads + 1, 2, TRUE)

\* PhfSet::get(q), h being hash_key(q, seed)
SetGet(t, q, h) ==
    IF RawLen(t) = 0 THEN Outcome("PhfSet::get", q, FALSE, None, 0, 0, FALSE)
    ELSE LET r == RawGet(t, h)
         IN  IF r.panic THEN Outcome("PhfSet::get", q, TRUE, None, r.reads, 0, TRUE)
             ELSE IF r.out[1] = q
               THEN Outcome("PhfSet::get", q, FALSE, r.out, r.reads, 1, TRUE)
             ELSE Outcome("PhfSet::get", q, FALSE, None, r.reads, 1, TRUE)

\* PhfSet::contains: self.get(element).is_some(), on the outcome r of get
SetContains(r) ==
    [r EXCEPT !.op = "PhfSet::contains", !.out = Some(r.out # None)]

\* iter(): the stored payloads in storage order
Iter(t) == t.values

\* hash_key(q, seed): the value remembered for q, or any value when q is
\* hashed under this seed for the first time
HashChoices(q) == IF q \in DOMAIN hashes THEN {hashes[q]} ELSE 0..MaxHash

Remember(q, h) ==
    [k \in DOMAIN hashes \cup {q} |-> IF k = q THEN h ELSE hashes[k]]

\* a lookup of q ends with outcome r, h being the hash drawn for q
Looked(q, h, r) ==
    /\ res' = r
    /\ hashes' = IF r.hashed THEN Remember(q, h) ELSE hashes
    /\ UNCHANGED <<harness, entries, pc, seed_n, scratch, phf, writer, table, err>>

\* RawPhfMap::get(q) on the static
LookupRawMap ==
    /\ pc = "artifact"
    /\ table.kind = "RawMap"
    /\ \E q \in KeyUniverse : \E h \in HashChoices(q) :
         Looked(q, h, RawMapGet(table, q, h))

\* PhfMap::get_key_value(q) on the static; get, get_key and contains_key
\* return MapGet, MapGetKey and MapContainsKey of its outcome
LookupMap ==
    /\ pc = "artifact"
    /\ table.kind = "Map"
    /\ \E q \in KeyUniverse : \E h \in HashChoices(q) :
         Looked(q, h, MapGetKeyValue(table, q, h))

\* PhfSet::get(q) on the static; contains returns SetContains of its outcome
LookupSet ==
    /\ pc = "artifact"
    /\ table.kind = "Set"
    /\ \E q \in KeyUniverse : \E h \in HashChoices(q) :
         Looked(q, h, SetGet(table, q, h))

Next ==
    \/ GeneratePhfEmpty
    \/ GeneratePhfFirstSeed
    \/ HashEntries
    \/ ScanDuplicate
    \/ ScanCollision
    \/ ScanClean
    \/ PilotReject
    \/ PilotExhausted
    \/ PilotAccept
    \/ CompactKeep
    \/ CompactMove
    \/ CompactFinish
    \/ BuildRawMap
    \/ BuildMap
    \/ BuildSet
    \/ Write
    \/ LookupRawMap
    \/ LookupMap
    \/ LookupSet

Spec == Init /\ [][Next]_vars

(* ---------------- generate_phf's parameters on longer slices ---------- *)

\* the slice of the keys 1..n
KeysUpTo(n) == [i \in 1..n |-> i]

ParamInit ==
    /\ entries \in {KeysUpTo(n) : n \in 1..MaxKeys}
    /\ Fresh
    /\ SingleRun

\* generate_phf up to the first call of try_generate_phf: lg, c, buckets_len,
\* alpha and codomain_len are fixed for the slice
ParamNext == GeneratePhfFirstSeed

ParamSpec == ParamInit /\ [][ParamNext]_vars

(* ------------------- generate_phf called twice on one slice ----------- *)

\* Two calls of generate_phf on one slice follow the same seeds while they
\* agree, so they are advanced attempt by attempt: the first call's attempt
\* under seed_n runs to its end, then the second call's attempt under the
\* same seed, then the next seed is taken. hash_key is a function of the key
\* and the seed: the second call hashes to what the first call hashed to.

\* the attempt under the seed `first` was hashed with has ended: with None
\* and a next seed ("attempt"), with None and no seed left ("capped"), with a
\* Phf ("generated") or in a panic ("panicked"); so has the call on no keys
AttemptEnded ==
    \/ pc \in {"generated", "panicked", "capped"}
    \/ pc = "attempt" /\ first # NoFirst /\ seed_n = first.seed_n + 1

\* the second call hashing with a hasher of its own
HashEntriesAgain_Rehashed ==
    /\ run = 2
    /\ pc = "attempt"
    /\ seed_n = first.seed_n
    /\ \E h \in [KeysOf(entries) -> 0..MaxHash] :
         /\ hashes' = h
         /\ hashed_entries' = SortHashedEntries(
                [i \in 1..N |-> HashedEntry(i - 1, h[entries[i]])])
    /\ pc' = "scan"
    /\ UNCHANGED <<harness, entries, seed_n, buckets, pilots_table, map, bucket_i,
                   pilot, free, front_idx, back_idx, phf, writer, table, res, err>>

\* the first call hashes the keys under seed_n, as HashEntries does; the
\* values of hash_key are kept
HashEntriesFirst ==
    /\ run = 1
    /\ pc = "attempt"
    /\ first = NoFirst
    /\ \E h \in [KeysOf(entries) -> 0..MaxHash] :
         /\ hashes' = h
         /\ hashed_entries' = SortHashedEntries(
                [i \in 1..N |-> HashedEntry(i - 1, h[entries[i]])])
         /\ first' = [NoFirst EXCEPT !.seed_n = seed_n, !.hashes = h]
    /\ pc' = "scan"
    /\ UNCHANGED <<pair, run, threads, entries, seed_n, buckets, pilots_table, map,
                   bucket_i, pilot, free, front_idx, back_idx, phf, writer, table,
                   res, err>>

\* the first call's attempt has ended: what it gave is kept and the second
\* call starts its attempt under the same seed
AttemptAgain ==
    /\ run = 1
    /\ AttemptEnded
    /\ first' = [first EXCEPT !.ended = pc, !.phf = phf, !.err = err]
    /\ run' = 2
    /\ pc' = IF first.seed_n = 0 THEN "start" ELSE "attempt"
    /\ seed_n' = first.seed_n
    /\ hashes' = NoHashes
    /\ phf' = NoPhf
    /\ err' = NoErr
    /\ ScratchCleared
    /\ UNCHANGED <<pair, threads, entries, writer, table, res>>

\* the second call hashes the keys under seed_n: hash_key returns what it
\* returned to the first call
HashEntriesAgain ==
    /\ run = 2
    /\ pc = "attempt"
    /\ seed_n = first.seed_n
    /\ hashes' = first.hashes
    /\ hashed_entries' = SortHashedEntries(
           [i \in 1..N |-> HashedEntry(i - 1, first.hashes[entries[i]])])
    /\ pc' = "scan"
    /\ UNCHANGED <<harness, entries, seed_n, buckets, pilots_table, map, bucket_i,
                   pilot, free, front_idx, back_idx, phf, writer, table, res, err>>

\* both attempts under the seed returned None: the next seed is the first
\* call's turn again
NextAttempt ==
    /\ run = 2
    /\ pc = "attempt"
    /\ seed_n = first.seed_n + 1
    /\ run' = 1
    /\ first' = NoFirst
    /\ UNCHANGED <<pair, threads, entries, pc, seed_n, hashes, scratch, phf, writer,
                   table, res, err>>

ReplayInit ==
    /\ entries \in Inputs
    /\ Fresh
    /\ run = 1
    /\ first = NoFirst
    /\ threads = NoThreads
    /\ other = NoOther
    /\ combined = NoCombined
    /\ compared = NoCompared

ReplayNext ==
    \/ GeneratePhfEmpty
    \/ GeneratePhfFirstSeed
    \/ HashEntriesFirst
    \/ HashEntriesAgain
    \/ ScanDuplicate
    \/ ScanCollision
    \/ ScanClean
    \/ PilotReject
    \/ PilotExhausted
    \/ PilotAccept
    \/ CompactKeep
    \/ CompactMove
    \/ CompactFinish
    \/ AttemptAgain
    \/ NextAttempt

ReplaySpec == ReplayInit /\ [][ReplayNext]_vars

(* --------------------- threads reading one static --------------------- *)

\* Each thread runs one lookup or one iteration at a time on the shared
\* static. A lookup is cut where it reads the table: after hash_key, after
\* the read of pilots_table, after the read of free, and at the read of the
\* storage, where the keys are compared and the call returns. The outcome a
\* thread builds counts what it read and compared.

IdleThread ==
    [stage |-> "idle", key |-> 0, hash |-> 0, idx |-> 0, via_free |-> FALSE,
     pos |-> 0, out |-> NoRes]

\* the lookup a thread calls on the static
LookupOp(t) ==
    CASE t.kind = "RawMap" -> "RawPhfMap::get"
      [] t.kind = "Map" -> "PhfMap::get_key_value"
      [] t.kind = "Set" -> "PhfSet::get"

\* the thread ends its call, by return or by panic
Ended(th, panic, out, reads, cmps) ==
    [th EXCEPT !.stage = "returned",
               !.out = [@ EXCEPT !.panic = panic, !.out = out,
                                 !.reads = reads, !.cmps = cmps]]

ThreadInputs == {<<>>, <<2, 2>>, <<1, 2>>}

ThreadsInit ==
    /\ entries \in ThreadInputs
    /\ Fresh
    /\ run = 0
    /\ first = NoFirst
    /\ threads = [t \in 1..MaxThreads |-> IdleThread]
    /\ other = NoOther
    /\ combined = NoCombined
    /\ compared = NoCompared

\* a thread calls get / get_key_value: PhfMap and PhfSet return None on
\* is_empty(); otherwise hash_key(key, self.seed) is computed
ThreadCall ==
    /\ pc = "artifact"
    /\ \E t \in DOMAIN threads : \E q \in KeyUniverse :
         /\ threads[t].stage = "idle"
         /\ IF table.kind # "RawMap" /\ RawLen(table) = 0
              THEN /\ threads' = [threads EXCEPT ![t] =
                         [IdleThread EXCEPT !.stage = "returned", !.key = q,
                             !.out = Outcome(LookupOp(table), q, FALSE, None,
                                             0, 0, FALSE)]]
                   /\ UNCHANGED hashes
              ELSE \E h \in HashChoices(q) :
                   /\ threads' = [threads EXCEPT ![t] =
                         [IdleThread EXCEPT !.stage = "hashed", !.key = q,
                             !.hash = h,
                             !.out = Outcome(LookupOp(table), q, FALSE, None,
                                             0, 0, TRUE)]]
                   /\ hashes' = Remember(q, h)
    /\ UNCHANGED <<pair, run, first, entries, pc, seed_n, scratch, phf, writer, table,
                   res, err>>

\* get_bucket, self.pilots_table[bucket], hash_pilot_value, get_index
ThreadIndex ==
    /\ pc = "artifact"
    /\ \E t \in DOMAIN threads :
         /\ threads[t].stage = "hashed"
         /\ LET th == threads[t]
                bucket == get_bucket(th.hash, table.buckets)
            IN  threads' = [threads EXCEPT ![t] =
                    IF ~InBounds(table.pilots_table, bucket)
                      THEN Ended(th, TRUE, None, 0, 0)
                      ELSE [th EXCEPT
                              !.stage = "indexed",
                              !.idx = get_index(th.hash,
                                        hash_pilot_value(At(table.pilots_table, bucket)),
                                        table.codomain_len),
                              !.out = [@ EXCEPT !.reads = 1]]]
    /\ UNCHANGED <<pair, run, first, entries, pc, seed_n, hashes, scratch, phf, writer,
                   table, res, err>>

\* idx >= self.len(): self.free[idx - self.len()]
ThreadRedirect ==
    /\ pc = "artifact"
    /\ \E t \in DOMAIN threads :
         /\ threads[t].stage = "indexed"
         /\ ~threads[t].via_free
         /\ threads[t].idx >= RawLen(table)
         /\ LET th == threads[t]
            IN  threads' = [threads EXCEPT ![t] =
                    IF ~InBounds(table.free, th.idx - RawLen(table))
                      THEN Ended(th, TRUE, None, th.out.reads, 0)
                      ELSE [th EXCEPT
                              !.idx = At(table.free, th.idx - RawLen(table)),
                              !.via_free = TRUE,
                              !.out = [@ EXCEPT !.reads = @ + 1]]]
    /\ UNCHANGED <<pair, run, first, entries, pc, seed_n, hashes, scratch, phf, writer,
                   table, res, err>>

\* what get / get_key_value return for the stored item
Answer(kind, item, q) ==
    CASE kind = "RawMap" -> Some(item)
      [] kind = "Map" -> IF item[1] = q THEN Some(item) ELSE None
      [] kind = "Set" -> IF item = q THEN Some(item) ELSE None

\* &self.values[..]; PhfMap and PhfSet compare the stored key with the key
\* asked for; the call returns
ThreadFetch ==
    /\ pc = "artifact"
    /\ \E t \in DOMAIN threads :
         /\ threads[t].stage = "indexed"
         /\ threads[t].via_free \/ threads[t].idx < RawLen(table)
         /\ LET th == threads[t]
            IN  threads' = [threads EXCEPT ![t] =
                    IF ~InBounds(table.values, th.idx)
                      THEN Ended(th, TRUE, None, th.out.reads, 0)
                      ELSE Ended(th, FALSE,
                                 Answer(table.kind, At(table.values, th.idx), th.key),
                                 th.out.reads + 1,
                                 IF table.kind = "RawMap" THEN 0 ELSE 1)]
    /\ UNCHANGED <<pair, run, first, entries, pc, seed_n, hashes, scratch, phf, writer,
                   table, res, err>>

\* the caller is done with what the call gave
ThreadReturn ==
    /\ pc = "artifact"
    /\ \E t \in DOMAIN threads :
         /\ threads[t].stage = "returned"
         /\ threads' = [threads EXCEPT ![t] = IdleThread]
    /\ UNCHANGED <<pair, run, first, entries, pc, seed_n, hashes, scratch, phf, writer,
                   table, res, err>>

\* a thread calls iter(): self.values.iter()
ThreadIter ==
    /\ pc = "artifact"
    /\ \E t \in DOMAIN threads :
         /\ threads[t].stage = "idle"
         /\ threads' = [threads EXCEPT ![t] =
               [IdleThread EXCEPT !.stage = "iter",
                   !.out = Outcome("iter", 0, FALSE, <<>>, 0, 0, FALSE)]]
    /\ UNCHANGED <<pair, run, first, entries, pc, seed_n, hashes, scratch, phf, writer,
                   table, res, err>>

\* next() taking the element out of the storage
ThreadIterNext_Draining ==
    /\ pc = "artifact"
    /\ \E t \in DOMAIN threads :
         /\ threads[t].stage = "iter"
         /\ table.values # <<>>
         /\ threads' = [threads EXCEPT ![t] =
               [@ EXCEPT !.pos = @ + 1,
                         !.out = [@ EXCEPT !.out = Append(@, Head(table.values)),
                                           !.reads = @ + 1]]]
         /\ table' = [table EXCEPT !.values = Tail(@)]
    /\ UNCHANGED <<pair, run, first, entries, pc, seed_n, hashes, scratch, phf, writer,
                   res, err>>

\* next() yields the element at the iterator's position
ThreadIterNext ==
    /\ pc = "artifact"
    /\ \E t \in DOMAIN threads :
         /\ threads[t].stage = "iter"
         /\ threads[t].pos < Len(table.values)
         /\ threads' = [threads EXCEPT ![t] =
               [@ EXCEPT !.pos = @ + 1,
                         !.out = [@ EXCEPT !.out = Append(@, At(table.values, threads[t].pos)),
                                           !.reads = @ + 1]]]
    /\ UNCHANGED <<pair, run, first, entries, pc, seed_n, hashes, scratch, phf, writer,
                   table, res, err>>

\* next() returns None: the iteration is over
ThreadIterEnd ==
    /\ pc = "artifact"
    /\ \E t \in DOMAIN threads :
         /\ threads[t].stage = "iter"
         /\ threads[t].pos >= Len(table.values)
         /\ threads' = [threads EXCEPT ![t] = [@ EXCEPT !.stage = "returned"]]
    /\ UNCHANGED <<pair, run, first, entries, pc, seed_n, hashes, scratch, phf, writer,
                   table, res, err>>

ThreadsNext ==
    \/ GeneratePhfEmpty
    \/ GeneratePhfFirstSeed
    \/ HashEntries
    \/ ScanDuplicate
    \/ ScanCollision
    \/ ScanClean
    \/ PilotReject
    \/ PilotExhausted
    \/ PilotAccept
    \/ CompactKeep
    \/ CompactMove
    \/ CompactFinish
    \/ BuildRawMap
    \/ BuildMap
    \/ BuildSet
    \/ Write
    \/ ThreadCall
    \/ ThreadIndex
    \/ ThreadRedirect
    \/ ThreadFetch
    \/ ThreadReturn
    \/ ThreadIter
    \/ ThreadIterNext
    \/ ThreadIterEnd

ThreadsSpec == ThreadsInit /\ [][ThreadsNext]_vars

(* ------------------------- two sets combined -------------------------- *)

\* build_set is called for one slice, then for another, and a combinator of
\* the second set (self) is collected with the first (other) as argument.
\* hash_key is a function of the key and the seed: where both sets ended
\* with one seed a key hashes alike for both.

\* the key slices of the two sets
SetInputs == {<<>>, <<2, 2>>, <<1, 2>>, <<2, 3>>, <<3>>}

SetsInit ==
    /\ entries \in SetInputs
    /\ Fresh
    /\ SingleRun

\* f, and g where f is not defined
Merge(f, g) ==
    [k \in DOMAIN f \cup DOMAIN g |-> IF k \in DOMAIN f THEN f[k] ELSE g[k]]

\* the keys are hashed as in HashEntries; under the seed `other` ended with,
\* a key of `other` hashes to what it hashed to there
HashEntriesOfSet ==
    /\ pc = "attempt"
    /\ \E h \in [KeysOf(entries) -> 0..MaxHash] :
         /\ SeedOf(seed_n) = other.table.seed =>
              \A k \in DOMAIN h \cap DOMAIN other.hashes : h[k] = other.hashes[k]
         /\ hashes' = h
         /\ hashed_entries' = SortHashedEntries(
                [i \in 1..N |-> HashedEntry(i - 1, h[entries[i]])])
    /\ pc' = "scan"
    /\ UNCHANGED <<harness, entries, seed_n, buckets, pilots_table, map, bucket_i,
                   pilot, free, front_idx, back_idx, phf, writer, table, res, err>>

\* the static of the first set is kept and build_set is called for the
\* second slice
SecondSet ==
    /\ pc = "artifact"
    /\ table.kind = "Set"
    /\ other = NoOther
    /\ other' = [table |-> table, hashes |-> hashes]
    /\ entries' \in SetInputs
    /\ pc' = "start"
    /\ seed_n' = 0
    /\ hashes' = NoHashes
    /\ phf' = NoPhf
    /\ writer' = NoWriter
    /\ table' = NoTable
    /\ ScratchCleared
    /\ UNCHANGED <<run, first, threads, combined, compared, res, err>>

\* what hash_key has returned so far under the seed of self, of other
KnownOfSelf ==
    IF table.seed = other.table.seed THEN Merge(hashes, other.hashes) ELSE hashes

KnownOfOther ==
    IF table.seed = other.table.seed THEN Merge(other.hashes, hashes)
    ELSE other.hashes

\* hash_key under the seed of t on every key: the values returned so far and
\* any value for the other keys; an empty set returns before hashing
Completions(t, known) ==
    IF RawLen(t) = 0 THEN {known}
    ELSE {Merge(known, x) : x \in [KeyUniverse \ DOMAIN known -> 0..MaxHash]}

\* PhfSet::contains(q) on t, h being hash_key under the seed of t
Contains(t, h, q) == SetContains(SetGet(t, q, h[q]))

\* what t.contains answers for each key, and whether the call panics
Answers(t, h) ==
    [x \in KeyUniverse |->
        [has |-> Contains(t, h, x).out[1], panic |-> Contains(t, h, x).panic]]

\* the answers of self and of other under each hash_key: one function under
\* one seed, one function per seed under two
AnswerPairs ==
    IF table.seed = other.table.seed
      THEN {<<Answers(table, h), Answers(other.table, h)>> :
                h \in Completions(table, KnownOfSelf)}
      ELSE {Answers(table, ha) : ha \in Completions(table, KnownOfSelf)}
             \X {Answers(other.table, hb) :
                     hb \in Completions(other.table, KnownOfOther)}

\* Difference::next until None, b_has being the answers of other.contains:
\* self.iter.by_ref().find(|&k| !self.other.contains(k))
difference(a, b_has) == SelectSeq(Iter(a), LAMBDA k : ~b_has[k].has)

\* Intersection::next until None:
\* self.iter.by_ref().find(|&k| self.other.contains(k))
intersection(a, b_has) == SelectSeq(Iter(a), LAMBDA k : b_has[k].has)

\* self.difference(other).chain(other.difference(self))
symmetric_difference(a, a_has, b, b_has) ==
    difference(a, b_has) \o difference(b, a_has)

\* the second set chained unfiltered
union_Unfiltered(a, a_has, b) == Iter(a) \o Iter(b)

\* self.iter().chain(other.difference(self))
union(a, a_has, b) == Iter(a) \o difference(b, a_has)

\* a combinator of self = table with other is collected into ys; contains is
\* asked of both sets for every key, and both differences are collected. No
\* call follows: the values hash_key returned here are not kept
Collected(op, ys, a_has, b_has) ==
    /\ combined' =
         [op |-> op,
          yielded |-> ys,
          a_minus_b |-> difference(table, b_has),
          b_minus_a |-> difference(other.table, a_has),
          in_a |-> {x \in KeyUniverse : a_has[x].has},
          in_b |-> {x \in KeyUniverse : b_has[x].has},
          panic |-> \E x \in KeyUniverse : a_has[x].panic \/ b_has[x].panic]
    /\ UNCHANGED <<run, first, threads, other, compared, entries, pc, seed_n, hashes,
                   scratch, phf, writer, table, res, err>>

\* both sets are built and no combinator has been collected
TwoSets ==
    /\ pc = "artifact"
    /\ table.kind = "Set"
    /\ other # NoOther
    /\ combined = NoCombined

\* self.difference(other) collected
Difference ==
    /\ TwoSets
    /\ \E hh \in AnswerPairs :
         Collected("difference", difference(table, hh[2]), hh[1], hh[2])

\* self.intersection(other) collected
Intersection ==
    /\ TwoSets
    /\ \E hh \in AnswerPairs :
         Collected("intersection", intersection(table, hh[2]), hh[1], hh[2])

\* self.symmetric_difference(other) collected
SymmetricDifference ==
    /\ TwoSets
    /\ \E hh \in AnswerPairs :
         Collected("symmetric_difference",
                   symmetric_difference(table, hh[1], other.table, hh[2]),
                   hh[1], hh[2])

\* self.union(other) collected
Union ==
    /\ TwoSets
    /\ \E hh \in AnswerPairs :
         Collected("union", union(table, hh[1], other.table), hh[1], hh[2])

SetsNext ==
    \/ GeneratePhfEmpty
    \/ GeneratePhfFirstSeed
    \/ HashEntriesOfSet
    \/ ScanDuplicate
    \/ ScanCollision
    \/ ScanClean
    \/ PilotReject
    \/ PilotExhausted
    \/ PilotAccept
    \/ CompactKeep
    \/ CompactMove
    \/ CompactFinish
    \/ BuildSet
    \/ Write
    \/ SecondSet
    \/ Difference
    \/ Intersection
    \/ SymmetricDifference
    \/ Union

SetsSpec == SetsInit /\ [][SetsNext]_vars

(* -------------------------- two tables compared ----------------------- *)

\* build_set or build_map is called for one slice, then for another, and
\* the two statics, of one type, are compared with ==. The value types the
\* crate renders (integers, bool, char, &str, tuples of them) have a
\* reflexive equality, as the integers here.

\* the key slices of the two tables
EqInputs == {<<>>, <<2, 2>>, <<1, 2>>, <<2, 1>>, <<2, 3>>}

\* the values a caller may pass to build_map
ValueUniverse == {101, 102}

EqInit ==
    /\ entries \in EqInputs
    /\ Fresh
    /\ SingleRun

\* build_set binds the keys; a second table is of the type of the first
BuildComparableSet ==
    /\ pc = "generated"
    /\ other.table.kind \in {NONE, "Set"}
    /\ writer' = [kind |-> "Set", keys |-> entries, values |-> <<>>]
    /\ pc' = "writer"
    /\ UNCHANGED <<harness, entries, seed_n, hashes, scratch, phf, table, res, err>>

\* build_map binds the keys and one value per key
BuildComparableMap ==
    /\ pc = "generated"
    /\ other.table.kind \in {NONE, "Map"}
    /\ \E vs \in [1..N -> ValueUniverse] :
         writer' = [kind |-> "Map", keys |-> entries, values |-> vs]
    /\ pc' = "writer"
    /\ UNCHANGED <<harness, entries, seed_n, hashes, scratch, phf, table, res, err>>

\* the static of the first table is kept and build_* is called for the
\* second slice
SecondTable ==
    /\ pc = "artifact"
    /\ other = NoOther
    /\ other' = [table |-> table, hashes |-> hashes]
    /\ entries' \in EqInputs
    /\ pc' = "start"
    /\ seed_n' = 0
    /\ hashes' = NoHashes
    /\ phf' = NoPhf
    /\ writer' = NoWriter
    /\ table' = NoTable
    /\ ScratchCleared
    /\ UNCHANGED <<run, first, threads, combined, compared, res, err>>

\* what other.get(k) (PhfMap) or other.contains(k) (PhfSet) answers for each
\* key, h being hash_key under the seed of t, and whether the call panics
Gets(t, h) ==
    [x \in KeyUniverse |->
        LET r == IF t.kind = "Map" THEN MapGet(MapGetKeyValue(t, x, h[x]))
                 ELSE SetContains(SetGet(t, x, h[x]))
        IN  [out |-> r.out, panic |-> r.panic]]

\* the answers of self and of other under each hash_key: one function under
\* one seed, one function per seed under two
GetPairs ==
    IF table.seed = other.table.seed
      THEN {<<Gets(table, h), Gets(other.table, h)>> :
                h \in Completions(table, KnownOfSelf)}
      ELSE {Gets(table, ha) : ha \in Completions(table, KnownOfSelf)}
             \X {Gets(other.table, hb) :
                     hb \in Completions(other.table, KnownOfOther)}

\* PhfMap::eq comparing the keys alone
PhfMap_eq_KeysOnly(a, b, b_get) ==
    /\ RawLen(a) = RawLen(b)
    /\ \A i \in 1..Len(Iter(a)) : b_get[Iter(a)[i][1]].out # None

\* PhfMap::eq, b_get being the answers of other.get:
\* self.iter().all(|(k1, v1)| other.get(k1).map_or(false, |v2| *v1 == *v2))
PhfMap_eq(a, b, b_get) ==
    /\ RawLen(a) = RawLen(b)
    /\ \A i \in 1..Len(Iter(a)) :
         /\ b_get[Iter(a)[i][1]].out # None
         /\ b_get[Iter(a)[i][1]].out[1] = Iter(a)[i][2]

\* PhfSet::eq, b_has being the answers of other.contains:
\* self.iter().all(|k| other.contains(k))
PhfSet_eq(a, b, b_has) ==
    /\ RawLen(a) = RawLen(b)
    /\ \A i \in 1..Len(Iter(a)) : b_has[Iter(a)[i]].out[1]

\* a == b for two statics of one type
Eq(a, b, b_get) ==
    IF a.kind = "Map" THEN PhfMap_eq(a, b, b_get) ELSE PhfSet_eq(a, b, b_get)

\* self = table and other are compared with == in both orders, and each
\* with itself. No call follows: the values hash_key returned here are not
\* kept
Compare ==
    /\ pc = "artifact"
    /\ other # NoOther
    /\ table.kind = other.table.kind
    /\ ~compared.done
    /\ \E gg \in GetPairs :
         compared' =
           [done |-> TRUE,
            a_b |-> Eq(table, other.table, gg[2]),
            b_a |-> Eq(other.table, table, gg[1]),
            a_a |-> Eq(table, table, gg[1]),
            b_b |-> Eq(other.table, other.table, gg[2]),
            panic |-> \E x \in KeyUniverse : gg[1][x].panic \/ gg[2][x].panic]
    /\ UNCHANGED <<run, first, threads, other, combined, entries, pc, seed_n,
                   hashes, scratch, phf, writer, table, res, err>>

EqNext ==
    \/ GeneratePhfEmpty
    \/ GeneratePhfFirstSeed
    \/ HashEntriesOfSet
    \/ ScanDuplicate
    \/ ScanCollision
    \/ ScanClean
    \/ PilotReject
    \/ PilotExhausted
    \/ PilotAccept
    \/ CompactKeep
    \/ CompactMove
    \/ CompactFinish
    \/ BuildComparableSet
    \/ BuildComparableMap
    \/ Write
    \/ SecondTable
    \/ Compare

EqSpec == EqInit /\ [][EqNext]_vars

(* ------------------- one construction, wider hashes ------------------- *)

\* generate_phf alone, hash_key returning one more value: with WideHash two
\* keys of one bucket can be sent to one slot by a pilot, which the values
\* of 0..MaxHash never are for slices of up to MaxN keys

\* the values hash_key returns in SearchSpec
WideHashes == (0..MaxHash) \cup {WideHash}

\* the keys are hashed as in HashEntries, to values of WideHashes
HashEntriesWide ==
    /\ pc = "attempt"
    /\ \E h \in [KeysOf(entries) -> WideHashes] :
         /\ hashes' = h
         /\ hashed_entries' = SortHashedEntries(
                [i \in 1..N |-> HashedEntry(i - 1, h[entries[i]])])
    /\ pc' = "scan"
    /\ UNCHANGED <<harness, entries, seed_n, buckets, pilots_table, map, bucket_i,
                   pilot, free, front_idx, back_idx, phf, writer, table, res, err>>

SearchInit ==
    /\ entries \in Inputs
    /\ Fresh
    /\ SingleRun

SearchNext ==
    \/ GeneratePhfEmpty
    \/ GeneratePhfFirstSeed
    \/ HashEntriesWide
    \/ ScanDuplicate
    \/ ScanCollision
    \/ ScanClean
    \/ PilotReject
    \/ PilotExhausted
    \/ PilotAccept
    \/ CompactKeep
    \/ CompactMove
    \/ CompactFinish

SearchSpec == SearchInit /\ [][SearchNext]_vars

\* the key slices of the runs checked for termination
FairInputs == {<<>>, <<3>>, <<2, 2>>, <<1, 2>>}

FairSearchInit ==
    /\ entries \in FairInputs
    /\ Fresh
    /\ SingleRun

\* the thread that called generate_phf keeps running: a step that can be
\* taken is taken
FairSearchSpec == FairSearchInit /\ [][SearchNext]_vars /\ WF_vars(SearchNext)

(* ------------------------------- claims ------------------------------- *)

\* generate_phf has returned a Phf
Returned == pc \in {"generated", "writer", "artifact"}

InputKeys == KeysOf(entries)

HasDuplicates == Cardinality(InputKeys) < N

Words == 0..(WordMod - 1)

\* the lookup engine on the returned parameters, storing the input indices
PhfTable == RawPhfMap_new("RawMap", phf.seed, phf.pilots_table, phf.map, phf.free)

\* the lookup engine's answer for every input key
InputLookups == [k \in InputKeys |-> RawGet(PhfTable, hashes[k])]

\* C1: whenever generate_phf returns for N > 0 keys, the lookup index
\* (h XOR hash_pilot_value(pilots_table[h mod B])) mod M, redirected through
\* free when it is >= N, maps the input keys one-to-one onto 0..N-1
C1_LookupIndexIsBijection ==
    (pc = "generated" /\ N > 0) =>
        LET found == InputLookups
        IN  /\ ~HasDuplicates
            /\ \A k \in InputKeys :
                 /\ ~found[k].panic
                 /\ found[k].index \in 0..(N - 1)
            /\ \A k1, k2 \in InputKeys :
                 found[k1].index = found[k2].index => k1 = k2
            /\ {found[k].index : k \in InputKeys} = 0..(N - 1)

\* three keys were placed and one of them is reached through free
C1_Witness ==
    /\ pc = "generated"
    /\ N = 3
    /\ \E k \in InputKeys : InputLookups[k].slot >= N

\* C2: a Map built from keys and values of one length returns Some(values[i])
\* for get(keys[i]), and a RawMap built from them returns values[i]
C2_RoundTrip ==
    (pc = "artifact" /\ Len(writer.values) = N) =>
        /\ table.kind = "Map" =>
             /\ \A i \in 1..N :
                  MapGet(MapGetKeyValue(table, entries[i], hashes[entries[i]])).out
                      = Some(writer.values[i])
             /\ (res.op = "PhfMap::get_key_value" /\ res.key \in InputKeys) =>
                  \E i \in 1..N : /\ entries[i] = res.key
                                  /\ MapGet(res).out = Some(writer.values[i])
        /\ table.kind = "RawMap" =>
             /\ \A i \in 1..N :
                  /\ ~RawMapGet(table, entries[i], hashes[entries[i]]).panic
                  /\ RawMapGet(table, entries[i], hashes[entries[i]]).out
                         = Some(writer.values[i])
             /\ (res.op = "RawPhfMap::get" /\ res.key \in InputKeys) =>
                  \E i \in 1..N : /\ entries[i] = res.key
                                  /\ res.out = Some(writer.values[i])

\* get_key_value on a Map of three keys found the third input key in a slot
\* other than its input position, and get returns the third value
C2_Witness ==
    /\ pc = "artifact"
    /\ table.kind = "Map"
    /\ N = 3
    /\ Len(writer.values) = N
    /\ res.op = "PhfMap::get_key_value"
    /\ res.key = entries[3]
    /\ MapGet(res).out = Some(writer.values[3])
    /\ table.values[3] # <<entries[3], writer.values[3]>>

\* the hashes a query may have: the one its key was placed with, or any word
\* for a key outside the input
QueryHashes(q) == IF q \in InputKeys THEN {hashes[q]} ELSE Words

\* C3: on every Map, get(q) is Some exactly when the stored key of the
\* resolved slot equals q, which is exactly when q is an input key; on every
\* Set, contains(q) is true exactly when q is an input key
C3_MembershipIsExact ==
    pc = "artifact" =>
        /\ table.kind = "Map" =>
             /\ \A q \in KeyUniverse : \A h \in QueryHashes(q) :
                  LET r == MapGetKeyValue(table, q, h)
                  IN  /\ ~r.panic
                      /\ (MapGet(r).out # None) <=> (q \in InputKeys)
                      /\ (MapGet(r).out # None) <=>
                             (N > 0 /\ RawGet(table, h).out[1][1] = q)
                      /\ MapContainsKey(r).out = Some(q \in InputKeys)
                      /\ MapGetKey(r).out = IF q \in InputKeys THEN Some(q) ELSE None
             /\ res.op = "PhfMap::get_key_value" =>
                  (res.out # None) <=> (res.key \in InputKeys)
        /\ table.kind = "Set" =>
             /\ \A q \in KeyUniverse : \A h \in QueryHashes(q) :
                  LET r == SetGet(table, q, h)
                  IN  /\ ~r.panic
                      /\ SetContains(r).out = Some(q \in InputKeys)
                      /\ r.out = IF q \in InputKeys THEN Some(q) ELSE None
             /\ res.op = "PhfSet::get" =>
                  (res.out # None) <=> (res.key \in InputKeys)

\* a key outside a two-key Map was looked up, resolved through free to a
\* stored key that differs from it, and answered None
C3_Witness ==
    /\ pc = "artifact"
    /\ table.kind = "Map"
    /\ N = 2
    /\ res.op = "PhfMap::get_key_value"
    /\ res.key \notin InputKeys
    /\ res.reads = 3
    /\ res.cmps = 1
    /\ res.out = None

\* C4: on a RawMap of N > 0 keys get never fails, whatever the hash of the
\* query: the bucket is inside pilots_table, the index is below N + |free|,
\* an index >= N is redirected to a free entry below N, and a stored value is
\* returned
C4_RawGetNeverFails ==
    (pc = "artifact" /\ table.kind = "RawMap" /\ N > 0) =>
        /\ \A h \in Words :
             LET r == RawGet(table, h)
             IN  /\ get_bucket(h, table.buckets) < Len(table.pilots_table)
                 /\ ~r.panic
                 /\ r.slot \in 0..(N + Len(table.free) - 1)
                 /\ r.slot >= N => At(table.free, r.slot - N) \in 0..(N - 1)
                 /\ r.index \in 0..(N - 1)
                 /\ r.out = Some(At(table.values, r.index))
        /\ res.op = "RawPhfMap::get" =>
             /\ ~res.panic
             /\ \E i \in 1..N : res.out = Some(table.values[i])

\* a key outside a RawMap was looked up and got a stored value through free
C4_Witness ==
    /\ pc = "artifact"
    /\ table.kind = "RawMap"
    /\ N > 0
    /\ res.op = "RawPhfMap::get"
    /\ res.key \notin InputKeys
    /\ res.reads = 3
    /\ ~res.panic
    /\ res.out # None

\* C5: on the RawMap built from no keys, (0, [0], [], [0]), get panics for
\* every query and returns no value
C5_EmptyRawGetPanics ==
    (pc = "artifact" /\ table.kind = "RawMap" /\ N = 0) =>
        /\ table.seed = SeedOf(0)
        /\ table.pilots_table = <<0>>
        /\ table.values = <<>>
        /\ table.free = <<0>>
        /\ \A q \in KeyUniverse : \A h \in Words :
             /\ RawMapGet(table, q, h).panic
             /\ RawMapGet(table, q, h).out = None
        /\ res.op = "RawPhfMap::get" => (res.panic /\ res.out = None)

\* get was called on the empty RawMap and panicked
C5_Witness ==
    /\ pc = "artifact"
    /\ table.kind = "RawMap"
    /\ N = 0
    /\ res.op = "RawPhfMap::get"
    /\ res.panic

\* C6: on a Map or Set built from no keys, get, get_key and get_key_value
\* return None and contains / contains_key return false for every query,
\* without hashing the key, reading pilots_table, storage or free, or
\* comparing keys; iteration yields nothing
C6_EmptyMapSetAnswerEmpty ==
    (pc = "artifact" /\ N = 0) =>
        /\ table.kind = "Map" =>
             /\ \A q \in KeyUniverse : \A h \in Words :
                  LET r == MapGetKeyValue(table, q, h)
                  IN  /\ r.out = None /\ ~r.panic
                      /\ r.reads = 0 /\ r.cmps = 0 /\ ~r.hashed
                      /\ MapGet(r).out = None
                      /\ MapGetKey(r).out = None
                      /\ MapContainsKey(r).out = Some(FALSE)
             /\ Iter(table) = <<>>
             /\ res.op = "PhfMap::get_key_value" =>
                  (res.out = None /\ res.reads = 0 /\ ~res.hashed /\ hashes = NoHashes)
        /\ table.kind = "Set" =>
             /\ \A q \in KeyUniverse : \A h \in Words :
                  LET r == SetGet(table, q, h)
                  IN  /\ r.out = None /\ ~r.panic
                      /\ r.reads = 0 /\ r.cmps = 0 /\ ~r.hashed
                      /\ SetContains(r).out = Some(FALSE)
             /\ Iter(table) = <<>>
             /\ res.op = "PhfSet::get" =>
                  (res.out = None /\ res.reads = 0 /\ ~res.hashed /\ hashes = NoHashes)

\* get_key_value was called on the empty Map and answered None
C6_Witness ==
    /\ pc = "artifact"
    /\ table.kind = "Map"
    /\ N = 0
    /\ res.op = "PhfMap::get_key_value"
    /\ res.out = None
    /\ res.reads = 0

\* the scan of the sorted entries stops at a pair of equal keys
ScanMeetsDuplicate ==
    /\ pc = "scan"
    /\ FirstHit(hashed_entries) >= 0
    /\ At(entries, At(hashed_entries, FirstHit(hashed_entries)).idx)
         = At(entries, At(hashed_entries, FirstHit(hashed_entries) + 1).idx)

\* no two different input keys have one hash under the current seed
NoFullCollision ==
    \A k1, k2 \in InputKeys : hashes[k1] = hashes[k2] => k1 = k2

\* C7: once the scan meets a pair of equal keys the construction ends in the
\* duplicate-key panic under the same seed, no Phf is returned and no step
\* follows the panic; the scan meets such a pair in every attempt on an
\* input with equal keys in which no two different keys share a hash
C7_DuplicateAborts ==
    [][/\ pc # "panicked"
       /\ ScanMeetsDuplicate =>
            /\ pc' = "panicked"
            /\ err'.kind = "duplicate keys"
            /\ seed_n' = seed_n
            /\ phf' = NoPhf
       /\ (pc = "scan" /\ HasDuplicates /\ NoFullCollision) => ScanMeetsDuplicate]_vars

\* the second seed's attempt ended in the duplicate-key panic
C7_Witness ==
    /\ pc = "panicked"
    /\ err.kind = "duplicate keys"
    /\ seed_n = 2
    /\ N = 3

\* C8: the duplicate-key panic names two different input positions that
\* hold equal keys; for the keys [1,2,3,2] it names 1 and 3
C8_DuplicateIndices ==
    (pc = "panicked" /\ err.kind = "duplicate keys") =>
        /\ err.a \in 0..(N - 1)
        /\ err.b \in 0..(N - 1)
        /\ err.a # err.b
        /\ At(entries, err.a) = At(entries, err.b)
        /\ entries = <<1, 2, 3, 2>> => (err.a = 1 /\ err.b = 3)

\* build_set([1,2,3,2]) panicked naming 1 and 3
C8_Witness ==
    /\ pc = "panicked"
    /\ entries = <<1, 2, 3, 2>>
    /\ err = [kind |-> "duplicate keys", a |-> 1, b |-> 3]

\* C9: build_map and build_raw_map return no writer, and no table is made
\* from one, when values and keys differ in length
C9_LengthMismatchIsFatal ==
    (pc \in {"writer", "artifact"} /\ writer.kind \in {"Map", "RawMap"}) =>
        Len(writer.values) = N

\* C10: the returned pilots_table and free are never empty, so the divisors
\* |pilots_table| and N + |free| of the table are at least 1; for no keys
\* the Phf is seed 0, pilots_table [0], map [], free [0]
C10_DivisorsNonZero ==
    /\ Returned =>
         /\ Len(phf.pilots_table) >= 1
         /\ Len(phf.free) >= 1
         /\ N = 0 => /\ phf.seed = [hi |-> 0, lo |-> 0]
                     /\ phf.pilots_table = <<0>>
                     /\ phf.map = <<>>
                     /\ phf.free = <<0>>
    /\ pc = "artifact" =>
         /\ table.buckets = Len(phf.pilots_table)
         /\ table.codomain_len = N + Len(phf.free)
         /\ table.buckets >= 1
         /\ table.codomain_len >= 1
    /\ ~(pc = "panicked" /\ err.kind = "divisor can't be zero")

\* the table of the empty input was made with both divisors 1
C10_Witness ==
    /\ pc = "artifact"
    /\ N = 0
    /\ table.buckets = 1
    /\ table.codomain_len = 1

\* the payload of input index m as the caller passed it
Payload(m) ==
    CASE writer.kind = "Map" -> <<At(entries, m), At(writer.values, m)>>
      [] writer.kind = "RawMap" -> At(writer.values, m)
      [] writer.kind = "Set" -> At(entries, m)

\* C11: after a construction on N > 0 keys map has length N, every input
\* index 0..N-1 appears in it exactly once, map[i] is the index of the key
\* whose lookup index is i, and the storage of the table made from it holds
\* at position i the payload of input map[i]
C11_MapIsPermutation ==
    /\ (pc = "generated" /\ N > 0) =>
         LET found == InputLookups
         IN  /\ Len(phf.map) = N
             /\ \A i \in 0..(N - 1) :
                  Cardinality({j \in 0..(Len(phf.map) - 1) : At(phf.map, j) = i}) = 1
             /\ \A j \in 0..(Len(phf.map) - 1) :
                  /\ At(phf.map, j) \in 0..(N - 1)
                  /\ found[At(entries, At(phf.map, j))].index = j
    /\ (pc = "artifact" /\ N > 0) =>
         /\ Len(table.values) = N
         /\ \A i \in 0..(N - 1) : At(table.values, i) = Payload(At(phf.map, i))

\* a Map of three keys was made whose storage holds the payload of the
\* third input at position 0 and that of the first input at position 2
C11_Witness ==
    /\ pc = "artifact"
    /\ table.kind = "Map"
    /\ N = 3
    /\ phf.map = <<2, 1, 0>>
    /\ table.values[1] = <<entries[3], writer.values[3]>>
    /\ table.values[3] = <<entries[1], writer.values[1]>>

\* the compaction loop has ended and the Phf is about to be returned: map
\* still holds the intermediate table from slot N on
CompactionDone == pc = "compact" /\ front_idx = N

\* the lookup engine on the parameters CompactFinish returns
CompactedTable ==
    RawPhfMap_new("RawMap", SeedOf(seed_n), pilots_table, SubSeq(map, 1, N), free)

\* the final lookup index of input index i
CompactedTarget(i) == RawGet(CompactedTable, hashes[At(entries, i)]).index

\* the input indices whose final lookup index is t
TargetedBy(t) == {i \in 0..(N - 1) : CompactedTarget(i) = t}

\* C12 as stated: every free[j], j in [0, M-N), is an index in [0, N) and the
\* final lookup target of exactly one key, the key that was placed in slot
\* N + j of the intermediate table
C12_EveryFreeEntryRedirects ==
    (CompactionDone /\ N > 0) =>
        \A j \in 0..(codomain_len - N - 1) :
            /\ InBounds(free, j)
            /\ At(free, j) \in 0..(N - 1)
            /\ At(map, N + j) # EMPTY
            /\ TargetedBy(At(free, j)) = {At(map, N + j)}

\* C12, amended: free has M - N entries, each an index in [0, N) and the
\* final lookup target of exactly one key; when a key was placed in slot
\* N + j of the intermediate table, free[j] is the target of that key; when
\* slot N + j stayed empty, free[j] is the 0 it was allocated with
C12_FreeEntries ==
    /\ (CompactionDone /\ N > 0) =>
         /\ Len(free) = codomain_len - N
         /\ \A j \in 0..(codomain_len - N - 1) :
              /\ At(free, j) \in 0..(N - 1)
              /\ Cardinality(TargetedBy(At(free, j))) = 1
              /\ IF At(map, N + j) # EMPTY
                    THEN /\ TargetedBy(At(free, j)) = {At(map, N + j)}
                         /\ RawGet(CompactedTable,
                                   hashes[At(entries, At(map, N + j))]).slot = N + j
                    ELSE At(free, j) = 0
    /\ (pc = "generated" /\ N > 0) =>
         /\ Len(phf.free) = codomain_len - N
         /\ \A j \in 0..(Len(phf.free) - 1) : At(phf.free, j) \in 0..(N - 1)

\* three keys were placed in five slots: slot 3 took a key that compaction
\* moved to position 1, slot 4 stayed empty
C12_Witness ==
    /\ CompactionDone
    /\ N = 3
    /\ At(map, 3) # EMPTY
    /\ At(map, 4) = EMPTY
    /\ free = <<1, 0>>

\* C13: for N > 0 the returned pilots_table has the bucket count B of the
\* construction, map has N entries and free M - N, and the table made from
\* them derives exactly B and M as its moduli; B and M are the moduli the keys
\* were bucketed and placed with
C13_LengthsAreModuli ==
    /\ (pc \in {"pilots", "compact"} /\ N > 0) =>
         /\ Len(pilots_table) = buckets_len
         /\ Len(map) = codomain_len
         /\ \A i \in 1..Len(hashed_entries) :
              hashed_entries[i].bucket = hashed_entries[i].hash % Len(pilots_table)
    /\ (Returned /\ N > 0) =>
         /\ Len(phf.pilots_table) = buckets_len
         /\ Len(phf.map) = N
         /\ Len(phf.free) = codomain_len - N
         /\ N = 1 => (buckets_len = 1 /\ codomain_len = 3)
         /\ N = 2 => (buckets_len = 4 /\ codomain_len = 3)
         /\ N = 3 => (buckets_len = 6 /\ codomain_len = 5)
    /\ (pc = "artifact" /\ N > 0) =>
         /\ table.buckets = buckets_len
         /\ table.codomain_len = codomain_len
         /\ Len(table.values) + Len(table.free) = codomain_len

\* the table of three keys was made with the moduli 6 and 5
C13_Witness ==
    /\ pc = "artifact"
    /\ N = 3
    /\ table.buckets = 6
    /\ table.codomain_len = 5
    /\ Len(table.free) = 2

\* generate_phf has fixed its parameters for a slice of at least one key
ParametersFixed == pc = "attempt" /\ N >= 1

\* C14: for every N >= 1 the codomain size M = candidate + (1 - candidate
\* mod 2), candidate = ceil(N / alpha), is odd and not below candidate
C14_CodomainIsOdd ==
    ParametersFixed =>
        /\ codomain_len % 2 = 1
        /\ codomain_len >= Candidate(N)
        /\ Candidate(N) % 2 = 1 => codomain_len = Candidate(N)
        /\ Candidate(N) % 2 = 0 => codomain_len = Candidate(N) + 1

\* for 64 keys the candidate 66 was raised to 67
C14_Witness ==
    /\ ParametersFixed
    /\ N = 64
    /\ Candidate(N) = 66
    /\ codomain_len = 67

\* C15 as stated: for every N >= 1, M <= N / 0.99 + 1, that is
\* 99 * M <= 100 * N + 99
C15_CodomainWithinMaxAlpha ==
    ParametersFixed => 99 * codomain_len <= 100 * N + 99

\* C15, amended: for every N >= 1, M <= ceil(N / alpha) + 1 with
\* alpha = 0.99 - 0.001 * floor(log2 N), so that alpha * M < N + 2 * alpha
C15_CodomainWithinAlpha ==
    ParametersFixed =>
        /\ codomain_len <= CeilDiv(1000 * N, 990 - ilog2(N)) + 1
        /\ (990 - ilog2(N)) * codomain_len < 1000 * N + 2 * (990 - ilog2(N))

\* for 100 keys M is 103, above 100 / 0.99 + 1
C15_Witness ==
    /\ ParametersFixed
    /\ N = 100
    /\ codomain_len = 103
    /\ 99 * codomain_len > 100 * N + 99

\* try_generate_phf is running or about to be called
Attempting == pc \in {"attempt", "scan", "pilots", "compact"}

\* an attempt ends in failure in this step
AttemptFails == pc \in {"scan", "pilots"} /\ pc' \in {"attempt", "capped"}

\* C16: the seeds tried are n << 32 for n = 1, 2, 3, .. in this order: the
\* first attempt uses n = 1, n grows by one exactly when an attempt fails,
\* the Phf returned carries the seed of the attempt that succeeded, and no
\* attempt follows a return
C16_SeedsInOrder ==
    [][/\ (pc = "start" /\ pc' = "attempt") => (seed_n = 0 /\ seed_n' = 1)
       /\ (AttemptFails /\ pc' = "attempt") => seed_n' = seed_n + 1
       /\ seed_n' # seed_n =>
            /\ seed_n' = seed_n + 1
            /\ pc = "start" \/ AttemptFails
       /\ (pc = "compact" /\ pc' = "generated") =>
            /\ seed_n >= 1
            /\ seed_n' = seed_n
            /\ phf'.seed = [hi |-> seed_n, lo |-> 0]
       /\ Returned =>
            /\ ~Attempting'
            /\ seed_n' = seed_n
            /\ phf' = phf]_vars

\* the first seed failed and the second seed's attempt was returned
C16_Witness ==
    /\ pc = "generated"
    /\ seed_n = 2
    /\ phf.seed = [hi |-> 2, lo |-> 0]

\* the storage slots a lookup with outcome r read: what it read less the
\* pilots_table entry and, for an index redirected through free, the free entry
StorageReads(t, h, r) ==
    IF r.reads = 0 THEN 0
    ELSE r.reads - 1 - (IF RawGet(t, h).slot >= RawLen(t) THEN 1 ELSE 0)

\* C18 as stated: every Map or Set lookup makes exactly one key comparison
\* and reads exactly one storage slot
C18_OneComparisonAlways ==
    (pc = "artifact" /\ res.op \in {"PhfMap::get_key_value", "PhfSet::get"}) =>
        /\ res.cmps = 1
        /\ res.reads # 0
        /\ StorageReads(table, hashes[res.key], res) = 1

\* C18, amended: every lookup on a Map or Set of N > 0 keys makes exactly
\* one key comparison and reads exactly one storage slot, whatever the outcome;
\* on a Map or Set of no keys it makes no comparison and reads no slot
C18_OneComparison ==
    pc = "artifact" =>
        /\ table.kind = "Map" =>
             /\ \A q \in KeyUniverse : \A h \in QueryHashes(q) :
                  LET r == MapGetKeyValue(table, q, h)
                  IN  IF N > 0
                        THEN /\ r.cmps = 1
                             /\ StorageReads(table, h, r) = 1
                             /\ MapGet(r).cmps = 1
                             /\ MapGetKey(r).cmps = 1
                             /\ MapContainsKey(r).cmps = 1
                        ELSE r.cmps = 0 /\ r.reads = 0
             /\ res.op = "PhfMap::get_key_value" =>
                  res.cmps = (IF N > 0 THEN 1 ELSE 0)
        /\ table.kind = "Set" =>
             /\ \A q \in KeyUniverse : \A h \in QueryHashes(q) :
                  LET r == SetGet(table, q, h)
                  IN  IF N > 0
                        THEN /\ r.cmps = 1
                             /\ StorageReads(table, h, r) = 1
                             /\ SetContains(r).cmps = 1
                        ELSE r.cmps = 0 /\ r.reads = 0
             /\ res.op = "PhfSet::get" =>
                  res.cmps = (IF N > 0 THEN 1 ELSE 0)

\* a key outside a Set of two keys was looked up: one comparison, which
\* failed, and no second slot was tried
C18_Witness ==
    /\ pc = "artifact"
    /\ table.kind = "Set"
    /\ N = 2
    /\ res.op = "PhfSet::get"
    /\ res.key \notin InputKeys
    /\ res.out = None
    /\ res.cmps = 1

Alone(th) ==
    LET h == IF th.key \in DOMAIN hashes THEN hashes[th.key] ELSE 0
    IN  CASE th.out.op = "iter" ->
               Outcome("iter", 0, FALSE, Iter(table), Len(table.values), 0, FALSE)
          [] th.out.op = "RawPhfMap::get" -> RawMapGet(table, th.key, h)
          [] th.out.op = "PhfMap::get_key_value" -> MapGetKeyValue(table, th.key, h)
          [] th.out.op = "PhfSet::get" -> SetGet(table, th.key, h)

\* C19: while any number of threads look up and iterate on one static in
\* any interleaving of their reads, no step changes seed, pilots_table,
\* storage or free, and every call returns what it returns when it runs alone
C19_LookupsLeaveTheTable ==
    /\ [](\A t \in DOMAIN threads :
            threads[t].stage = "returned" => threads[t].out = Alone(threads[t]))
    /\ [][pc = "artifact" =>
            /\ pc' = "artifact"
            /\ table' = table
            /\ table'.seed = table.seed
            /\ table'.pilots_table = table.pilots_table
            /\ table'.values = table.values
            /\ table'.free = table.free]_vars

\* on a Set of two keys one thread is in the middle of an iteration, having
\* yielded one element, while the other has read free for a key outside the
\* Set and not yet the storage
C19_Witness ==
    /\ pc = "artifact"
    /\ table.kind = "Set"
    /\ N = 2
    /\ \E t1, t2 \in DOMAIN threads :
         /\ threads[t1].stage = "iter"
         /\ threads[t1].pos = 1
         /\ threads[t2].stage = "indexed"
         /\ threads[t2].via_free
         /\ threads[t2].key \notin InputKeys

\* the keys a collected combinator yielded
Yielded == KeysOf(combined.yielded)

\* no element of s is repeated
OnceEach(s) == \A i, j \in 1..Len(s) : s[i] = s[j] => i = j

\* C20: for two constructed sets A (self) and B (other) over KeyUniverse, a
\* collected combinator raises no panic, yields each element once, and
\* yields for A.union(B) the keys x with A.contains(x) or B.contains(x), for
\* A.intersection(B) those with A.contains(x) and B.contains(x), for
\* A.difference(B) those with A.contains(x) and not B.contains(x), and for
\* A.symmetric_difference(B) the keys of A.difference(B) and B.difference(A)
C20_CombinatorsAgreeWithContains ==
    combined.op # NONE =>
        LET A == combined.in_a
            B == combined.in_b
        IN  /\ ~combined.panic
            /\ OnceEach(combined.yielded)
            /\ OnceEach(combined.a_minus_b)
            /\ OnceEach(combined.b_minus_a)
            /\ KeysOf(combined.a_minus_b) = A \ B
            /\ KeysOf(combined.b_minus_a) = B \ A
            /\ combined.op = "union" => Yielded = A \cup B
            /\ combined.op = "intersection" => Yielded = A \cap B
            /\ combined.op = "difference" => Yielded = A \ B
            /\ combined.op = "symmetric_difference" =>
                 Yielded = KeysOf(combined.a_minus_b)
                               \cup KeysOf(combined.b_minus_a)

\* the union of {1, 2} with {2, 3}, built under two seeds, has been collected
\* and has yielded three keys
C20_Witness ==
    /\ combined.op = "union"
    /\ combined.in_a = {1, 2}
    /\ combined.in_b = {2, 3}
    /\ table.seed # other.table.seed
    /\ Len(combined.yielded) = 3
    /\ Len(combined.a_minus_b) = 1

\* what a static holds: its (key, value) pairs, or its elements
Holds(t) == KeysOf(t.values)

\* C21: two constructed PhfMaps compare equal iff they hold the same (key,
\* value) pairs, two PhfSets iff they hold the same elements, whatever the
\* seeds and the storage orders; == is symmetric and reflexive and no
\* comparison panics
C21_EqualityIsStructural ==
    compared.done =>
        /\ ~compared.panic
        /\ compared.a_b <=> Holds(table) = Holds(other.table)
        /\ compared.a_b <=> compared.b_a
        /\ compared.a_a
        /\ compared.b_b

\* two maps of two keys built under two seeds and stored in two orders have
\* been compared and found equal
C21_Witness ==
    /\ compared.done
    /\ compared.a_b
    /\ table.kind = "Map"
    /\ RawLen(table) = 2
    /\ table.seed # other.table.seed
    /\ table.values # other.table.values

\* the bucket loop runs, or has just ended and compaction has moved nothing
Placing == pc = "pilots" \/ (pc = "compact" /\ front_idx = 0 /\ back_idx = N)

\* the input indices of the keys of the j buckets placed first
PlacedKeys(j) ==
    UNION {{BucketEntries(At(buckets, i))[e].idx :
                e \in 1..At(buckets, i).size} : i \in 0..(j - 1)}

\* map as it was when the bucket at position j of the loop was searched:
\* the keys of the buckets before it, every other slot empty
MapWhenPlacing(j) ==
    [s \in 1..Len(map) |-> IF map[s] \in PlacedKeys(j) THEN map[s] ELSE EMPTY]

\* under pilot p the keys of the bucket go to pairwise distinct slots that
\* hold no key in m
DistinctAndFree(m, bes, p) ==
    /\ \A i \in 1..Len(bes) : At(m, Destination(bes[i], p)) = EMPTY
    /\ \A i, j \in 1..Len(bes) :
         Destination(bes[i], p) = Destination(bes[j], p) => i = j

\* C22: the pilot stored for a placed bucket is the smallest p of 0..MaxPilot
\* that sends the keys of the bucket to pairwise distinct slots unoccupied by
\* the buckets placed before; a bucket with no keys gets pilot 0; every
\* candidate below the one being tried has failed; and a stored pilot is
\* never written again, up to the Phf returned
C22_SmallestPilotStored ==
    /\ [](Placing =>
            /\ \A j \in 0..(bucket_i - 1) :
                 LET b == At(buckets, j)
                     p == At(pilots_table, b.idx)
                 IN  /\ p \in 0..MaxPilot
                     /\ DistinctAndFree(MapWhenPlacing(j), BucketEntries(b), p)
                     /\ \A q \in 0..(p - 1) :
                          ~DistinctAndFree(MapWhenPlacing(j), BucketEntries(b), q)
                     /\ b.size = 0 => p = 0
            /\ pc = "pilots" =>
                 \A q \in 0..(pilot - 1) :
                    ~DistinctAndFree(map, BucketEntries(CurrentBucket), q))
    /\ [][/\ (pc = "pilots" /\ pc' \in {"pilots", "compact"}) =>
               \A j \in 0..(bucket_i - 1) :
                  At(pilots_table', At(buckets, j).idx)
                      = At(pilots_table, At(buckets, j).idx)
          /\ (pc = "compact" /\ pc' = "compact") => pilots_table' = pilots_table
          /\ (pc = "compact" /\ pc' = "generated") =>
               phf'.pilots_table = pilots_table]_vars

\* the first bucket holds two keys and got a pilot above 0 because pilot 0
\* sends both keys to one slot; the empty buckets after it get pilot 0
C22_Witness ==
    /\ pc = "pilots"
    /\ bucket_i = 2
    /\ At(buckets, 0).size = 2
    /\ At(pilots_table, At(buckets, 0).idx) >= 1
    /\ SharesDestination(SortValuesToAdd(
           ValuesToAdd(BucketEntries(At(buckets, 0)), 0)))
    /\ At(buckets, 1).size = 0
    /\ At(pilots_table, At(buckets, 1).idx) = 0

\* the buckets are formed and the attempt has not ended
BucketsFormed == pc \in {"pilots", "compact"}

\* the keys of the bucket at position j of the loop sit in map
BucketInMap(m, j) ==
    \A e \in 1..At(buckets, j).size :
        \E s \in 1..Len(m) : m[s] = BucketEntries(At(buckets, j))[e].idx

\* C23: within an attempt the bucket loop takes the buckets in non-increasing
\* order of size, one after the other and each index of [0, B) once; the
\* ranges of the buckets partition the entries sorted by (bucket, hash), and
\* the bucket whose range holds a key has index hash mod B
C23_BucketsLargestFirst ==
    /\ [](BucketsFormed =>
            /\ Len(buckets) = buckets_len
            /\ \A idx \in 0..(buckets_len - 1) :
                 Cardinality({j \in 0..(Len(buckets) - 1) :
                                 At(buckets, j).idx = idx}) = 1
            /\ \A j \in 0..(Len(buckets) - 2) :
                 At(buckets, j).size >= At(buckets, j + 1).size
            /\ \A e \in 0..(N - 1) :
                 /\ Cardinality({j \in 0..(Len(buckets) - 1) :
                        /\ At(buckets, j).start_idx <= e
                        /\ e < At(buckets, j).start_idx + At(buckets, j).size}) = 1
                 /\ \A j \in 0..(Len(buckets) - 1) :
                      (/\ At(buckets, j).start_idx <= e
                       /\ e < At(buckets, j).start_idx + At(buckets, j).size)
                      => At(buckets, j).idx
                            = At(hashed_entries, e).hash % buckets_len
            /\ bucket_i \in 0..Len(buckets)
            /\ pc = "compact" => bucket_i = Len(buckets)
            /\ \A j \in 0..(bucket_i - 1) : BucketInMap(map, j))
    /\ [][(pc = "pilots" /\ pc' \in {"pilots", "compact"}) =>
            /\ buckets' = buckets
            /\ bucket_i' \in {bucket_i, bucket_i + 1}
            /\ bucket_i' = bucket_i + 1 =>
                 /\ \A j \in 0..(bucket_i - 1) :
                      At(buckets, j).size >= CurrentBucket.size
                 /\ BucketInMap(map', bucket_i)]_vars

\* of three keys two share bucket 0, which is taken first; the bucket of
\* the third key, of index 2 or more, is taken second, before the empty
\* buckets of smaller index, and both have been placed
C23_Witness ==
    /\ pc = "pilots"
    /\ N = 3
    /\ bucket_i = 2
    /\ At(buckets, 0).size = 2
    /\ At(buckets, 1).size = 1
    /\ At(buckets, 1).idx >= 2
    /\ At(buckets, 2).idx = 1

\* the slots of m that hold a key
Occupied(m) == {s \in 1..Len(m) : m[s] # EMPTY}

RECURSIVE PlacedSize(_)
\* the sizes of the j buckets placed first, summed
PlacedSize(j) == IF j <= 0 THEN 0 ELSE PlacedSize(j - 1) + At(buckets, j - 1).size

\* C24: a step of the search that drops a candidate pilot writes neither map
\* nor pilots_table; a step that writes map is the acceptance of the
\* candidate for the whole bucket; and throughout the search no key index
\* sits in two slots while the occupied slots number the total size of the
\* buckets placed so far
C24_RejectionWritesNothing ==
    /\ [](pc = "pilots" =>
            /\ \A s, t \in Occupied(map) : map[s] = map[t] => s = t
            /\ Cardinality(Occupied(map)) = PlacedSize(bucket_i))
    /\ [][(pc = "pilots" /\ pc' = "pilots" /\ bucket_i' = bucket_i) =>
               /\ ~DistinctAndFree(map, BucketEntries(CurrentBucket), pilot)
               /\ pilot' = pilot + 1
               /\ map' = map
               /\ pilots_table' = pilots_table]_vars
    /\ [][(pc = "pilots" /\ pc' \in {"pilots", "compact"} /\ map' # map) =>
               /\ DistinctAndFree(map, BucketEntries(CurrentBucket), pilot)
               /\ bucket_i' = bucket_i + 1
               /\ BucketInMap(map', bucket_i)
               /\ Cardinality(Occupied(map'))
                    = Cardinality(Occupied(map)) + CurrentBucket.size]_vars

\* a bucket is placed and pilot 0 has just been dropped for the next bucket
\* because it sends a key to an occupied slot
C24_Witness ==
    /\ pc = "pilots"
    /\ bucket_i >= 1
    /\ pilot = 1
    /\ CurrentBucket.size >= 1
    /\ HitsOccupied(map, BucketEntries(CurrentBucket), 0)
    /\ Cardinality(Occupied(map)) >= 1

\* the empty slots of map from slot a up to N - 1
HolesFrom(a) == {s \in a..(N - 1) : At(map, s) = EMPTY}

\* the occupied slots of map from slot b on
KeysFrom(b) == {s \in b..(Len(map) - 1) : At(map, s) # EMPTY}

\* the back cursor starts at N, only increases and is read inside map; the
\* slots the front cursor has passed are occupied; when the walk ends the
\* truncated map holds every key once, the keys that sat at or above N
\* among them
CompactionWalk ==
    /\ [](pc = "compact" =>
            /\ Len(map) = codomain_len
            /\ front_idx \in 0..N
            /\ back_idx \in N..codomain_len
            /\ \A s \in 0..(front_idx - 1) : At(map, s) # EMPTY
            /\ (front_idx < N /\ At(map, front_idx) = EMPTY) =>
                 SkipEmpty(map, back_idx) < codomain_len)
    /\ [][(pc = "pilots" /\ pc' = "compact") => back_idx' = N /\ front_idx' = 0]_vars
    /\ [][pc = "compact" =>
            /\ pc' \in {"compact", "generated"}
            /\ pc' = "compact" =>
                 /\ back_idx' >= back_idx
                 /\ front_idx' = front_idx + 1
            /\ pc' = "generated" =>
                 /\ front_idx = N
                 /\ Len(phf'.map) = N
                 /\ KeysOf(phf'.map) = 0..(N - 1)
                 /\ \A s \in KeysFrom(N) : At(map, s) \in KeysOf(phf'.map)]_vars

\* C25 as stated: throughout compaction the empty slots below N number the
\* occupied slots at or above N, and the walk is as CompactionWalk says
C25_HolesMatchBackKeysAlways ==
    /\ [](pc = "compact" =>
            Cardinality(HolesFrom(0)) = Cardinality(KeysFrom(N)))
    /\ CompactionWalk

\* C25: throughout compaction the empty slots from the front cursor up to
\* N - 1 number the occupied slots from the back cursor on (a moved key stays
\* in its back slot as well), the back cursor starts at N, only increases
\* and is never read at an index >= M, and when the walk over 0..N ends every
\* slot of [0, N) is occupied, the keys that sat at or above N are among
\* them, and truncating map to N discards no key
C25_HolesMatchBackKeys ==
    /\ [](pc = "compact" =>
            Cardinality(HolesFrom(front_idx)) = Cardinality(KeysFrom(back_idx)))
    /\ CompactionWalk

\* one key has been moved from the back into a front hole and a second hole
\* is still ahead of the front cursor
C25_Witness ==
    /\ pc = "compact"
    /\ back_idx > N
    /\ front_idx < N
    /\ Cardinality(HolesFrom(front_idx)) = 1
    /\ Cardinality(KeysFrom(N)) = 2
    /\ \E s \in 0..(front_idx - 1), t \in N..(back_idx - 1) : At(map, s) = At(map, t)

\* an attempt ends with None
AttemptReturnsNone == pc \in {"scan", "pilots"} /\ pc' \in {"attempt", "capped"}

\* the scan stops at two different keys with one hash
FullCollisionMet ==
    /\ pc = "scan"
    /\ FirstHit(hashed_entries) >= 0
    /\ LET e0 == At(hashed_entries, FirstHit(hashed_entries))
           e1 == At(hashed_entries, FirstHit(hashed_entries) + 1)
       IN  /\ e0.hash = e1.hash
           /\ At(entries, e0.idx) # At(entries, e1.idx)

\* no pilot of 0..MaxPilot places the current bucket
NoPilotPlaces ==
    /\ pc = "pilots"
    /\ \A q \in 0..MaxPilot :
         ~DistinctAndFree(map, BucketEntries(CurrentBucket), q)

\* nothing of an earlier attempt is left
AttemptStartsFresh ==
    /\ hashes = NoHashes
    /\ hashed_entries = <<>>
    /\ buckets = <<>>
    /\ pilots_table = <<>>
    /\ map = <<>>
    /\ free = <<>>
    /\ bucket_i = 0
    /\ pilot = 0
    /\ front_idx = 0
    /\ back_idx = 0
    /\ phf = NoPhf
    /\ err = NoErr

\* C26: an attempt returns None exactly on a full-hash collision of two
\* different keys or when no pilot places a bucket; it raises no error and
\* returns no Phf, the next seed is tried with nothing left of the failed
\* attempt, and the Phf finally returned carries the returned seed and
\* pilots, placements and free entries that send every key, hashed under
\* that seed, to its own index
C26_SeedFailureIsInvisible ==
    /\ [](pc = "attempt" => AttemptStartsFresh)
    /\ []((pc = "generated" /\ N > 0) =>
            /\ phf.seed = SeedOf(seed_n)
            /\ err = NoErr
            /\ DOMAIN hashes = InputKeys
            /\ \A i \in 1..N :
                 /\ ~InputLookups[entries[i]].panic
                 /\ InputLookups[entries[i]].out = Some(i - 1))
    /\ [][AttemptReturnsNone =>
            /\ FullCollisionMet \/ NoPilotPlaces
            /\ err' = NoErr
            /\ phf' = NoPhf
            /\ seed_n < MaxSeeds => (pc' = "attempt" /\ seed_n' = seed_n + 1)]_vars
    /\ [][(FullCollisionMet \/ (NoPilotPlaces /\ pilot = MaxPilot)) =>
            AttemptReturnsNone]_vars

\* three different keys: the attempt under the first seed returned None and
\* the attempt under the second seed returned a Phf
C26_Witness ==
    /\ pc = "generated"
    /\ N = 3
    /\ ~HasDuplicates
    /\ seed_n = 2
    /\ phf.seed = SeedOf(2)
    /\ err = NoErr

\* the attempt under seed n is over: it returned a Phf, it returned None (the
\* next seed is taken, or the model's last seed was this one), or it panicked
AttemptOver(n) ==
    \/ pc \in {"generated", "panicked", "capped"}
    \/ seed_n > n

\* C27: every attempt ends: the attempt under each seed is over after
\* finitely many steps and compaction, once started, reaches the returned Phf;
\* the pilot counter stays within 0..MaxPilot and a bucket's candidates are
\* tried one by one from 0, so at most MaxPilot + 1 of them; and an attempt
\* ends in exactly one of a Phf, None, or the duplicate-key panic
C27_AttemptTerminates ==
    /\ \A n \in 1..MaxSeeds : (pc = "attempt" /\ seed_n = n) ~> AttemptOver(n)
    /\ (pc = "compact") ~> (pc = "generated")
    /\ [](pilot \in 0..MaxPilot)
    /\ [][(pc = "pilots" /\ pc' = "pilots") =>
            \/ bucket_i' = bucket_i /\ pilot' = pilot + 1
            \/ bucket_i' = bucket_i + 1 /\ pilot' = 0]_vars
    /\ [][(pc = "compact" /\ pc' = "compact") => front_idx' = front_idx + 1]_vars
    /\ [][(Attempting /\ ~Attempting') =>
            \/ pc' = "generated" /\ phf' # NoPhf /\ err' = NoErr
            \/ pc' = "capped" /\ phf' = NoPhf /\ err' = NoErr
            \/ pc' = "panicked" /\ phf' = NoPhf /\ err'.kind = "duplicate keys"]_vars
    /\ [][(Attempting /\ pc # "attempt" /\ pc' = "attempt") =>
            phf' = NoPhf /\ err' = NoErr /\ seed_n' = seed_n + 1]_vars

\* the last pilot is being tried for a bucket after every pilot before it was
\* dropped
C27_Witness ==
    /\ pc = "pilots"
    /\ pilot = MaxPilot
    /\ CurrentBucket.size >= 1
    /\ \A q \in 0..(MaxPilot - 1) :
         ~DistinctAndFree(map, BucketEntries(CurrentBucket), q)

\* C28: for an input with two equal keys no attempt returns a Phf: every
\* attempt stops in the scan of adjacent pairs, either in the duplicate-key
\* panic or, when two different keys with one hash are met first, in a seed
\* failure; the bucket loop is never entered and generate_phf never returns
C28_DuplicatesNeverReturn ==
    /\ [](HasDuplicates =>
            /\ ~Returned
            /\ phf = NoPhf
            /\ pc \notin {"pilots", "compact"}
            /\ pc = "scan" => FirstHit(hashed_entries) >= 0)
    /\ [][(HasDuplicates /\ pc = "scan" /\ pc' # "scan") =>
            \/ pc' = "panicked" /\ err'.kind = "duplicate keys" /\ phf' = NoPhf
            \/ pc' \in {"attempt", "capped"} /\ err' = NoErr /\ phf' = NoPhf]_vars

\* a slice with two equal keys whose first attempt met two different keys
\* with one hash and whose second attempt panicked on the equal keys
C28_Witness ==
    /\ HasDuplicates
    /\ seed_n = 2
    /\ pc = "panicked"
    /\ err.kind = "duplicate keys"
    /\ At(entries, err.a) = At(entries, err.b)
    /\ err.a # err.b

====
